---- MODULE Spec2Model ----
(***************************************************************************)
(* Model of the aggregation and multi-selection engine of the Texas zones  *)
(* explorer: the ZIP group index built by OverviewMap (zipSummaries) and   *)
(* by ZipCodeAnalyzer (zipAnalysis), the aggregated summary of the         *)
(* selected ZIPs (aggregatedData) with the figures derived from it, and    *)
(* the selection and search state of OverviewMap.                          *)
(*                                                                         *)
(* JavaScript values are tagged records [t, n, s]: t is the type tag, n    *)
(* the number of a "num", s the characters of a "str" (a sequence of       *)
(* one-character strings, so that parsing and searching work on the        *)
(* characters).  Numbers are integers: the attribute values of the model   *)
(* are counts.  NaN is a value of its own, absorbing under addition.       *)
(* lastEvent is a history variable: the handler that ran last.             *)
(*                                                                         *)
(* DataExplorer is modelled next to them: its schema discovery             *)
(* (dataAnalysis), its search and its page window (filteredData).          *)
(*                                                                         *)
(* Index and FileUpload are modelled as the session that feeds them: the   *)
(* cache load of the mount effect with its loading timeout, the files      *)
(* chosen, the decoding of an upload, and the requests to IndexedDB, each   *)
(* asynchronous step being an action of its own.  A collection is an       *)
(* opaque value there.                                                     *)
(***************************************************************************)
EXTENDS Integers, Sequences, FiniteSets, TLC

VARIABLES geoJsonData, zipSummaries, zipAnalysis, selectedZips, searchTerm,
          showAggregatedView, aggregatedData, mapInstance, renderError,
          lastEvent, explorerSearchTerm, currentPage, dataAnalysis, filteredData,
          lenientDateParser, originalGeoJson, isLoadingFromCache, cacheRecord,
          idbRequests, cacheLoad, timeoutId, uploadedFiles, isLoading, error

vars == <<geoJsonData, zipSummaries, zipAnalysis, selectedZips, searchTerm,
          showAggregatedView, aggregatedData, mapInstance, renderError,
          lastEvent, explorerSearchTerm, currentPage, dataAnalysis, filteredData,
          lenientDateParser, originalGeoJson, isLoadingFromCache, cacheRecord,
          idbRequests, cacheLoad, timeoutId, uploadedFiles, isLoading, error>>

\* The state of DataExplorer: its searchTerm and currentPage, its two
\* memoized values, and the engine it runs on (whether Date.parse takes
\* strings outside the date-time string format)
explorerVars ==
    <<explorerSearchTerm, currentPage, dataAnalysis, filteredData, lenientDateParser>>

\* The state of Index (originalGeoJson, isLoadingFromCache), the cache it
\* keeps in IndexedDB (the record stored, the requests under way, the position
\* of the cache load of the mount effect, its loading timeout), and the state
\* of FileUpload (uploadedFiles, isLoading, error)
indexVars ==
    <<originalGeoJson, isLoadingFromCache, cacheRecord, idbRequests, cacheLoad,
      timeoutId, uploadedFiles, isLoading, error>>

----------------------------------------------------------------------------
(* JavaScript values *)

Undef == [t |-> "undef", n |-> 0, s |-> <<>>]

Null == [t |-> "null", n |-> 0, s |-> <<>>]

NaN == [t |-> "nan", n |-> 0, s |-> <<>>]

Num(i) == [t |-> "num", n |-> i, s |-> <<>>]

Str(cs) == [t |-> "str", n |-> 0, s |-> cs]

IsNum(v) == v.t = "num"

IsNaN(v) == v.t = "nan"

IsStr(v) == v.t = "str"

\* JavaScript truthiness: undefined, null, NaN, 0 and "" are falsy.
Truthy(v) ==
    \/ v.t = "num" /\ v.n # 0
    \/ v.t = "str" /\ v.s # <<>>

\* a || b
OrElse(a, b) == IF Truthy(a) THEN a ELSE b

Digits == {"0", "1", "2", "3", "4", "5", "6", "7", "8", "9"}

DigitVal(c) ==
    CASE c = "0" -> 0 [] c = "1" -> 1 [] c = "2" -> 2 [] c = "3" -> 3
      [] c = "4" -> 4 [] c = "5" -> 5 [] c = "6" -> 6 [] c = "7" -> 7
      [] c = "8" -> 8 [] c = "9" -> 9

DigitChar(d) ==
    CASE d = 0 -> "0" [] d = 1 -> "1" [] d = 2 -> "2" [] d = 3 -> "3"
      [] d = 4 -> "4" [] d = 5 -> "5" [] d = 6 -> "6" [] d = 7 -> "7"
      [] d = 8 -> "8" [] d = 9 -> "9"

IsDigits(cs) == cs # <<>> /\ \A i \in 1..Len(cs) : cs[i] \in Digits

RECURSIVE DigitsVal(_)
DigitsVal(cs) ==
    IF cs = <<>> THEN 0
    ELSE 10 * DigitsVal(SubSeq(cs, 1, Len(cs) - 1)) + DigitVal(cs[Len(cs)])

RECURSIVE NatToStr(_)
NatToStr(i) ==
    IF i < 10 THEN <<DigitChar(i)>>
    ELSE NatToStr(i \div 10) \o <<DigitChar(i % 10)>>

RECURSIVE TrimStart(_)
TrimStart(cs) ==
    IF cs # <<>> /\ cs[1] = " " THEN TrimStart(Tail(cs)) ELSE cs

RECURSIVE TrimEnd(_)
TrimEnd(cs) ==
    IF cs # <<>> /\ cs[Len(cs)] = " " THEN TrimEnd(SubSeq(cs, 1, Len(cs) - 1))
    ELSE cs

\* String.prototype.trim
Trim(cs) == TrimEnd(TrimStart(cs))

\* String(v)
JSString(v) ==
    CASE v.t = "str" -> v.s
      [] v.t = "num" -> IF v.n < 0 THEN <<"-">> \o NatToStr(0 - v.n)
                        ELSE NatToStr(v.n)
      [] v.t = "nan" -> <<"N", "a", "N">>
      [] v.t = "null" -> <<"n", "u", "l", "l">>
      [] v.t = "undef" -> <<"u", "n", "d", "e", "f", "i", "n", "e", "d">>

\* The numeric value of a string under unary plus: surrounding blanks are
\* dropped, the empty string is 0, an optionally signed run of digits is its
\* value, anything else is NaN.
StringToNumber(cs) ==
    LET t == Trim(cs)
    IN  IF t = <<>> THEN Num(0)
        ELSE IF IsDigits(t) THEN Num(DigitsVal(t))
        ELSE IF t[1] = "-" /\ IsDigits(Tail(t)) THEN Num(0 - DigitsVal(Tail(t)))
        ELSE IF t[1] = "+" /\ IsDigits(Tail(t)) THEN Num(DigitsVal(Tail(t)))
        ELSE NaN

\* Unary plus: +v
ToNumber(v) ==
    CASE v.t = "num" -> v
      [] v.t = "nan" -> NaN
      [] v.t = "null" -> Num(0)
      [] v.t = "undef" -> NaN
      [] v.t = "str" -> StringToNumber(v.s)

RECURSIVE DigitPrefix(_)
DigitPrefix(cs) ==
    IF cs # <<>> /\ cs[1] \in Digits THEN <<cs[1]>> \o DigitPrefix(Tail(cs))
    ELSE <<>>

\* parseInt(v): the string of v, leading blanks dropped, an optional sign,
\* then the longest run of leading digits; NaN when there is no digit.
ParseInt(v) ==
    LET t == TrimStart(JSString(v))
        neg == t # <<>> /\ t[1] = "-"
        body == IF t # <<>> /\ t[1] \in {"-", "+"} THEN Tail(t) ELSE t
        ds == DigitPrefix(body)
    IN  IF ds = <<>> THEN NaN
        ELSE IF neg THEN Num(0 - DigitsVal(ds)) ELSE Num(DigitsVal(ds))

\* a + b on numbers
Plus(a, b) == IF IsNaN(a) \/ IsNaN(b) THEN NaN ELSE Num(a.n + b.n)

\* a > 0 and a >= 0 on numbers: false for NaN
GtZero(a) == IsNum(a) /\ a.n > 0

GeZero(a) == IsNum(a) /\ a.n >= 0

\* Math.round(a / b) for integers a and b > 0: the nearest integer, halves up.
RoundDiv(a, b) == (2 * a + b) \div (2 * b)

----------------------------------------------------------------------------
(* Features and the group key *)

\* props[key]: undefined for an attribute the bag does not carry
Get(props, key) == IF key \in DOMAIN props THEN props[key] ELSE Undef

\* The aliases read from the last to the first
ZipOfLastAliasFirst(props) ==
    OrElse(OrElse(Get(props, "zipcode"), Get(props, "ZIP")), Get(props, "Zip"))

\* props.Zip || props.ZIP || props.zipcode
ZipOf(props) ==
    OrElse(OrElse(Get(props, "Zip"), Get(props, "ZIP")), Get(props, "zipcode"))

\* Map.prototype.has / get on a Map kept as the sequence of its values in
\* insertion order, each value carrying its key in the field zip.
HasZip(summaries, zip) == \E i \in 1..Len(summaries) : summaries[i].zip = zip

IndexOfZip(summaries, zip) ==
    CHOOSE i \in 1..Len(summaries) : summaries[i].zip = zip

ZipKeys(summaries) == [i \in 1..Len(summaries) |-> summaries[i].zip]

EmptyTotals == [k \in {} |-> Num(0)]

----------------------------------------------------------------------------
(* OverviewMap.zipSummaries *)

essentialFields == <<"Pre_K", "KG", "Grade_1", "Grade_2", "Grade_3", "Stdnt_R">>

EssentialSet == {essentialFields[i] : i \in 1..Len(essentialFields)}

NewZipSummary(zip) ==
    [zip |-> zip, totalStudents |-> Num(0), totalPopulation |-> Num(0),
     totalFemale |-> Num(0), totalMale |-> Num(0), count |-> 0,
     schools |-> Num(0), features |-> <<>>, processedTotals |-> EmptyTotals]

\* +(props[key] || 0)
NumberOrZero(props, key) == ToNumber(OrElse(Get(props, key), Num(0)))

\* The essentialFields loop: a key whose value is >= 0 is added to its running
\* total, created at 0 on first use; other keys are left as they are.
FoldEssential(totals, props) ==
    LET hit == {k \in EssentialSet : GeZero(NumberOrZero(props, k))}
    IN  [k \in (DOMAIN totals) \cup hit |->
            IF k \in hit
            THEN Plus(IF k \in DOMAIN totals THEN totals[k] ELSE Num(0),
                      NumberOrZero(props, k))
            ELSE totals[k]]

\* The fold with a primary total that leaves the male count out
FoldSummaryFemaleOnly(zipInfo, feature) ==
    LET props == feature.properties
        female == NumberOrZero(props, "Female")
        male == NumberOrZero(props, "Male")
    IN  [zipInfo EXCEPT
            !.features = Append(@, feature),
            !.count = @ + 1,
            !.totalFemale = Plus(@, female),
            !.totalMale = Plus(@, male),
            !.totalStudents = Plus(@, female),
            !.totalPopulation = Plus(@, NumberOrZero(props, "pop")),
            !.schools = Plus(@, NumberOrZero(props, "Schl_Cn")),
            !.processedTotals = FoldEssential(@, props)]

\* The body of batch.forEach for one feature that has a key.
FoldSummary(zipInfo, feature) ==
    LET props == feature.properties
        female == NumberOrZero(props, "Female")
        male == NumberOrZero(props, "Male")
        totalStudents == Plus(female, male)
        population == NumberOrZero(props, "pop")
    IN  [zipInfo EXCEPT
            !.features = Append(@, feature),
            !.count = @ + 1,
            !.totalFemale = Plus(@, female),
            !.totalMale = Plus(@, male),
            !.totalStudents = Plus(@, totalStudents),
            !.totalPopulation = Plus(@, population),
            !.schools = Plus(@, NumberOrZero(props, "Schl_Cn")),
            !.processedTotals = FoldEssential(@, props)]

\* The Map after one feature when a feature without a key is grouped as well
SummariesWithAnyKey(summaries, feature, zip) ==
    IF HasZip(summaries, zip)
    THEN [summaries EXCEPT ![IndexOfZip(summaries, zip)] = FoldSummary(@, feature)]
    ELSE Append(summaries, FoldSummary(NewZipSummary(zip), feature))

\* The Map after one feature: a feature without a key is passed over, a new
\* key gets its entry, and the feature is folded into the entry of its key.
SummariesWith(summaries, feature, zip) ==
    IF ~Truthy(zip) THEN summaries
    ELSE IF HasZip(summaries, zip)
    THEN [summaries EXCEPT ![IndexOfZip(summaries, zip)] = FoldSummary(@, feature)]
    ELSE Append(summaries, FoldSummary(NewZipSummary(zip), feature))

\* The callback of batch.forEach
ProcessFeature(summaries, feature) ==
    SummariesWith(summaries, feature, ZipOf(feature.properties))

\* batch.forEach: the features are folded one after the other.  The test on
\* summaries is never true: it has the Map evaluated before the next feature
\* is folded into it.
RECURSIVE ProcessFeatures(_, _)
ProcessFeatures(summaries, features) ==
    IF features = <<>> \/ summaries # summaries THEN summaries
    ELSE ProcessFeatures(ProcessFeature(summaries, Head(features)), Tail(features))

\* useMemo(..., [geoJsonData]): the empty Map when there is no collection
BuildZipSummaries(data) ==
    IF ~data.loaded THEN <<>> ELSE ProcessFeatures(<<>>, data.features)

----------------------------------------------------------------------------
(* ZipCodeAnalyzer.zipAnalysis *)

NewZipAnalysis(zip) ==
    [zip |-> zip, rawRecords |-> <<>>, count |-> 0, totalStudents |-> Num(0),
     totalFemale |-> Num(0), totalMale |-> Num(0), totalPreK |-> Num(0),
     totalKG |-> Num(0), totalGrade1 |-> Num(0), totalGrade2 |-> Num(0),
     totalGrade3 |-> Num(0), processedTotals |-> EmptyTotals]

\* parseInt(props[key] || 0)
ParseIntOrZero(props, key) == ParseInt(OrElse(Get(props, key), Num(0)))

\* The Object.entries(props) loop: every attribute whose parseInt is a number
\* >= 0 is added to its running total, created at 0 on first use.
FoldDynamic(totals, props) ==
    LET hit == {k \in DOMAIN props :
                    /\ ~IsNaN(ParseIntOrZero(props, k))
                    /\ GeZero(ParseIntOrZero(props, k))}
    IN  [k \in (DOMAIN totals) \cup hit |->
            IF k \in hit
            THEN Plus(IF k \in DOMAIN totals THEN totals[k] ELSE Num(0),
                      ParseIntOrZero(props, k))
            ELSE totals[k]]

\* The body with the record put in front of the records of the group
FoldAnalysisNewestFirst(zipInfo, feature) ==
    LET props == feature.properties
        totalFemale == Plus(zipInfo.totalFemale, ParseIntOrZero(props, "Female"))
        totalMale == Plus(zipInfo.totalMale, ParseIntOrZero(props, "Male"))
    IN  [zipInfo EXCEPT
            !.rawRecords = <<props>> \o @,
            !.count = @ + 1,
            !.processedTotals = FoldDynamic(@, props),
            !.totalFemale = totalFemale,
            !.totalMale = totalMale,
            !.totalPreK = Plus(@, ParseIntOrZero(props, "Pre_K")),
            !.totalKG = Plus(@, ParseIntOrZero(props, "KG")),
            !.totalGrade1 = Plus(@, ParseIntOrZero(props, "Grade_1")),
            !.totalGrade2 = Plus(@, ParseIntOrZero(props, "Grade_2")),
            !.totalGrade3 = Plus(@, ParseIntOrZero(props, "Grade_3")),
            !.totalStudents = Plus(totalFemale, totalMale)]

\* The body of features.forEach for one feature that has a key.
FoldAnalysis(zipInfo, feature) ==
    LET props == feature.properties
        totalFemale == Plus(zipInfo.totalFemale, ParseIntOrZero(props, "Female"))
        totalMale == Plus(zipInfo.totalMale, ParseIntOrZero(props, "Male"))
    IN  [zipInfo EXCEPT
            !.rawRecords = Append(@, props),
            !.count = @ + 1,
            !.processedTotals = FoldDynamic(@, props),
            !.totalFemale = totalFemale,
            !.totalMale = totalMale,
            !.totalPreK = Plus(@, ParseIntOrZero(props, "Pre_K")),
            !.totalKG = Plus(@, ParseIntOrZero(props, "KG")),
            !.totalGrade1 = Plus(@, ParseIntOrZero(props, "Grade_1")),
            !.totalGrade2 = Plus(@, ParseIntOrZero(props, "Grade_2")),
            !.totalGrade3 = Plus(@, ParseIntOrZero(props, "Grade_3")),
            !.totalStudents = Plus(totalFemale, totalMale)]

AnalysisWith(zipData, feature, zip) ==
    IF ~Truthy(zip) THEN zipData
    ELSE IF HasZip(zipData, zip)
    THEN [zipData EXCEPT ![IndexOfZip(zipData, zip)] = FoldAnalysis(@, feature)]
    ELSE Append(zipData, FoldAnalysis(NewZipAnalysis(zip), feature))

\* The callback of features.forEach
AnalyzeFeature(zipData, feature) ==
    AnalysisWith(zipData, feature, ZipOf(feature.properties))

\* features.forEach, evaluated feature by feature as ProcessFeatures is
RECURSIVE AnalyzeFeatures(_, _)
AnalyzeFeatures(zipData, features) ==
    IF features = <<>> \/ zipData # zipData THEN zipData
    ELSE AnalyzeFeatures(AnalyzeFeature(zipData, Head(features)), Tail(features))

\* The order of two keys under localeCompare.  The keys of the model are runs
\* of digits, possibly signed, which collate in the order of their characters,
\* "-" before the digits and a proper prefix before its extensions.
CharOrder(c) == IF c \in Digits THEN DigitVal(c) + 1 ELSE 0

RECURSIVE LocaleLess(_, _)
LocaleLess(a, b) ==
    IF b = <<>> THEN FALSE
    ELSE IF a = <<>> THEN TRUE
    ELSE IF CharOrder(a[1]) # CharOrder(b[1]) THEN CharOrder(a[1]) < CharOrder(b[1])
    ELSE LocaleLess(Tail(a), Tail(b))

\* Array.prototype.sort((a, b) => a.zip.localeCompare(b.zip)): stable, by
\* insertion from the left.
RECURSIVE InsertByZip(_, _)
InsertByZip(sorted, item) ==
    IF sorted = <<>> THEN <<item>>
    ELSE IF LocaleLess(JSString(item.zip), JSString(Head(sorted).zip))
         THEN <<item>> \o sorted
         ELSE <<Head(sorted)>> \o InsertByZip(Tail(sorted), item)

RECURSIVE SortByZip(_)
SortByZip(items) ==
    IF items = <<>> THEN <<>>
    ELSE InsertByZip(SortByZip(SubSeq(items, 1, Len(items) - 1)), items[Len(items)])

\* The comparator calls a.zip.localeCompare, which a number does not have: with
\* two or more groups the sort throws when every key is a number, and may
\* throw, depending on which element the engine passes first, when some are.
SortMustThrow(items) ==
    Len(items) >= 2 /\ \A i \in 1..Len(items) : ~IsStr(items[i].zip)

SortMayThrow(items) ==
    Len(items) >= 2 /\ \E i \in 1..Len(items) : ~IsStr(items[i].zip)

NullAnalysis == [isNull |-> TRUE, threw |-> FALSE, groups |-> <<>>]

\* The values useMemo(..., [geoJsonData]) can produce: null without a
\* collection, else the sorted groups, or the exception of the comparator.
ZipAnalysisOutcomes(data) ==
    IF ~data.loaded THEN {NullAnalysis}
    ELSE LET items == AnalyzeFeatures(<<>>, data.features)
             sorted == [isNull |-> FALSE, threw |-> FALSE, groups |-> SortByZip(items)]
             thrown == [isNull |-> FALSE, threw |-> TRUE, groups |-> <<>>]
         IN  IF SortMustThrow(items) THEN {thrown}
             ELSE IF SortMayThrow(items) THEN {sorted, thrown}
             ELSE {sorted}

----------------------------------------------------------------------------
(* OverviewMap.aggregatedData and the figures rendered from it *)

NullAggregate ==
    [isNull |-> TRUE, zips |-> <<>>, totalStudents |-> Num(0),
     totalPopulation |-> Num(0), totalFemale |-> Num(0), totalMale |-> Num(0),
     totalRecords |-> 0, totalSchools |-> Num(0), processedTotals |-> EmptyTotals]

NewAggregate(selected) == [NullAggregate EXCEPT !.isNull = FALSE, !.zips = selected]

\* The school count of a group taken as the total over its records
SchoolsTotal(zipData) == OrElse(zipData.schools, Num(0))

\* Math.round(zipData.schools / zipData.count) || 0
SchoolsPerRecord(zipData) ==
    IF IsNaN(zipData.schools) THEN Num(0)
    ELSE Num(RoundDiv(zipData.schools.n, zipData.count))

\* zipData.processedTotals.forEach: each key is added to the aggregate's total
AddTotals(totals, more) ==
    [k \in (DOMAIN totals) \cup (DOMAIN more) |->
        IF k \in DOMAIN more
        THEN Plus(IF k \in DOMAIN totals THEN totals[k] ELSE Num(0), more[k])
        ELSE totals[k]]

\* The body with the record count assigned instead of added
AddZipLastRecords(aggregated, summaries, zip) ==
    IF ~HasZip(summaries, zip) THEN aggregated
    ELSE LET zipData == summaries[IndexOfZip(summaries, zip)]
         IN  [aggregated EXCEPT
                !.totalStudents = Plus(@, zipData.totalStudents),
                !.totalPopulation = Plus(@, zipData.totalPopulation),
                !.totalFemale = Plus(@, zipData.totalFemale),
                !.totalMale = Plus(@, zipData.totalMale),
                !.totalRecords = zipData.count,
                !.totalSchools = Plus(@, SchoolsPerRecord(zipData)),
                !.processedTotals = AddTotals(@, zipData.processedTotals)]

\* The body with a key that has no summary counted as one record
AddZipCountingAbsent(aggregated, summaries, zip) ==
    IF ~HasZip(summaries, zip)
    THEN [aggregated EXCEPT !.totalRecords = @ + 1]
    ELSE LET zipData == summaries[IndexOfZip(summaries, zip)]
         IN  [aggregated EXCEPT
                !.totalStudents = Plus(@, zipData.totalStudents),
                !.totalPopulation = Plus(@, zipData.totalPopulation),
                !.totalFemale = Plus(@, zipData.totalFemale),
                !.totalMale = Plus(@, zipData.totalMale),
                !.totalRecords = @ + zipData.count,
                !.totalSchools = Plus(@, SchoolsPerRecord(zipData)),
                !.processedTotals = AddTotals(@, zipData.processedTotals)]

\* The body of selectedZips.forEach for one key
AddZip(aggregated, summaries, zip) ==
    IF ~HasZip(summaries, zip) THEN aggregated
    ELSE LET zipData == summaries[IndexOfZip(summaries, zip)]
         IN  [aggregated EXCEPT
                !.totalStudents = Plus(@, zipData.totalStudents),
                !.totalPopulation = Plus(@, zipData.totalPopulation),
                !.totalFemale = Plus(@, zipData.totalFemale),
                !.totalMale = Plus(@, zipData.totalMale),
                !.totalRecords = @ + zipData.count,
                !.totalSchools = Plus(@, SchoolsPerRecord(zipData)),
                !.processedTotals = AddTotals(@, zipData.processedTotals)]

RECURSIVE AddZips(_, _, _)
AddZips(aggregated, summaries, zips) ==
    IF zips = <<>> THEN aggregated
    ELSE AddZips(AddZip(aggregated, summaries, Head(zips)), summaries, Tail(zips))

\* The summary computed without the test for an empty selection
AggregateOfAnySelection(selected, summaries) ==
    AddZips(NewAggregate(selected), summaries, selected)

\* useMemo(..., [selectedZips, zipSummaries])
Aggregate(selected, summaries) ==
    IF Len(selected) = 0 THEN NullAggregate
    ELSE AddZips(NewAggregate(selected), summaries, selected)

----------------------------------------------------------------------------
(* Figures rendered from the totals.  A quotient a / b is kept exact, as the
   pair of its numerator and denominator; the code divides only behind a
   guard b > 0. *)

Figure(kind, num, den) == [kind |-> kind, num |-> num, den |-> den]

NotApplicable == Figure("na", 0, 1)

\* a / b for b > 0: NaN when a is NaN
Divide(a, b) ==
    IF IsNaN(a) \/ IsNaN(b) THEN Figure("nan", 0, 1)
    ELSE Figure("ratio", a.n, b.n)

\* q * k
Times(q, k) == IF q.kind = "ratio" THEN [q EXCEPT !.num = @ * k] ELSE q

Abs(i) == IF i < 0 THEN 0 - i ELSE i

Sign(i) == IF i < 0 THEN 0 - 1 ELSE 1

RECURSIVE Pow10(_)
Pow10(d) == IF d = 0 THEN 1 ELSE 10 * Pow10(d - 1)

\* q.toFixed(digits): the text "NaN" for NaN, else the decimal with that many
\* digits nearest to q, halves away from zero; kept as the integer num
\* counting units of 10^-digits.
ToFixed(q, digits) ==
    IF q.kind # "ratio" THEN q
    ELSE Figure("fixed",
                Sign(q.num) * RoundDiv(Abs(q.num) * Pow10(digits), q.den),
                Pow10(digits))

\* Math.round(q)
MathRound(q) == IF q.kind = "ratio" THEN Num(RoundDiv(q.num, q.den)) ELSE NaN

\* aggregatedData.totalSchools > 0 ? Math.round(totalStudents / totalSchools) : 0
AvgStudentsPerSchool(agg) ==
    IF GtZero(agg.totalSchools)
    THEN MathRound(Divide(agg.totalStudents, agg.totalSchools))
    ELSE Num(0)

\* aggregatedData.totalMale > 0 ? (totalFemale / totalMale).toFixed(2) : 'N/A'
GenderRatio(agg) ==
    IF GtZero(agg.totalMale)
    THEN ToFixed(Divide(agg.totalFemale, agg.totalMale), 2)
    ELSE NotApplicable

\* aggregatedData.processedTotals?.get(key) || 0
GradeValue(agg, key) ==
    OrElse(IF key \in DOMAIN agg.processedTotals THEN agg.processedTotals[key]
           ELSE Undef, Num(0))

\* totalStudents > 0 ? (value / totalStudents * 100).toFixed(1) : '0'
GradePercentage(agg, key) ==
    IF GtZero(agg.totalStudents)
    THEN ToFixed(Times(Divide(GradeValue(agg, key), agg.totalStudents), 100), 1)
    ELSE Figure("fixed", 0, 1)

\* totalStudents > 0 ? (value / totalStudents * 100) : 0
GradeBarWidth(agg, key) ==
    IF GtZero(agg.totalStudents)
    THEN Times(Divide(GradeValue(agg, key), agg.totalStudents), 100)
    ELSE Figure("ratio", 0, 1)

\* zipSummaries.get(z)?.totalStudents || 0
StudentsOrZero(summaries, zip) ==
    IF HasZip(summaries, zip)
    THEN OrElse(summaries[IndexOfZip(summaries, zip)].totalStudents, Num(0))
    ELSE Num(0)

\* Math.max(...selectedZips.map(z => zipSummaries.get(z)?.totalStudents || 0)),
\* for a selection that is not empty
MaxStudents(selected, summaries) ==
    LET vals == {StudentsOrZero(summaries, selected[i]).n : i \in 1..Len(selected)}
    IN  Num(CHOOSE m \in vals : \A v \in vals : v <= m)

\* maxStudents > 0 ? (item.data.totalStudents / maxStudents * 100) : 0
RankingBarWidth(selected, summaries, zip) ==
    IF GtZero(MaxStudents(selected, summaries))
    THEN Times(Divide(summaries[IndexOfZip(summaries, zip)].totalStudents,
                      MaxStudents(selected, summaries)), 100)
    ELSE Figure("ratio", 0, 1)

\* ZipChartView: totalStudents > 0 ? (totalFemale / totalStudents) * 100 : 0
femalePercentage(zipData) ==
    IF GtZero(zipData.totalStudents)
    THEN Times(Divide(zipData.totalFemale, zipData.totalStudents), 100)
    ELSE Figure("ratio", 0, 1)

malePercentage(zipData) ==
    IF GtZero(zipData.totalStudents)
    THEN Times(Divide(zipData.totalMale, zipData.totalStudents), 100)
    ELSE Figure("ratio", 0, 1)

\* One row of the comparison table: selectedZips.map(zip => <tr>...)
ComparisonRow(summaries, zip) ==
    LET found == HasZip(summaries, zip)
        zipData == IF found THEN summaries[IndexOfZip(summaries, zip)]
                   ELSE NewZipSummary(zip)
    IN  [zip |-> zip,
         students |-> OrElse(zipData.totalStudents, Num(0)),
         female |-> OrElse(zipData.totalFemale, Num(0)),
         male |-> OrElse(zipData.totalMale, Num(0)),
         records |-> zipData.count]

\* .sort((a, b) => (b.data?.totalStudents || 0) - (a.data?.totalStudents || 0)):
\* stable, descending
RECURSIVE InsertByStudents(_, _)
InsertByStudents(sorted, item) ==
    IF sorted = <<>> THEN <<item>>
    ELSE IF OrElse(item.data.totalStudents, Num(0)).n
                > OrElse(Head(sorted).data.totalStudents, Num(0)).n
         THEN <<item>> \o sorted
         ELSE <<Head(sorted)>> \o InsertByStudents(Tail(sorted), item)

RECURSIVE SortByStudents(_)
SortByStudents(items) ==
    IF items = <<>> THEN <<>>
    ELSE InsertByStudents(SortByStudents(SubSeq(items, 1, Len(items) - 1)),
                          items[Len(items)])

RankingLimit == 10

\* selectedZips.map(...).filter(item => item.data).sort(...).slice(0, 10)
Ranking(selected, summaries) ==
    LET present == SelectSeq(selected, LAMBDA z : HasZip(summaries, z))
        items == [i \in 1..Len(present) |->
                    [zip |-> present[i],
                     data |-> summaries[IndexOfZip(summaries, present[i])]]]
        sorted == SortByStudents(items)
    IN  SubSeq(sorted, 1, IF Len(sorted) < RankingLimit THEN Len(sorted)
                          ELSE RankingLimit)

ComparisonTable(selected, summaries) ==
    [i \in 1..Len(selected) |-> ComparisonRow(summaries, selected[i])]

----------------------------------------------------------------------------
(* OverviewMap.filteredZips and the search badges *)

ToLowerChar(c) ==
    CASE c = "A" -> "a" [] c = "B" -> "b" [] c = "Z" -> "z" [] OTHER -> c

\* String.prototype.toLowerCase
ToLowerCase(cs) == [i \in 1..Len(cs) |-> ToLowerChar(cs[i])]

\* String.prototype.includes
Includes(hay, needle) ==
    \E i \in 1..(Len(hay) + 1) :
        /\ i + Len(needle) - 1 <= Len(hay)
        /\ SubSeq(hay, i, i + Len(needle) - 1) = needle

\* Array.prototype.filter
RECURSIVE FilterKeys(_, _)
FilterKeys(keys, needle) ==
    IF keys = <<>> THEN <<>>
    ELSE IF Includes(ToLowerCase(Head(keys).s), needle)
         THEN <<Head(keys)>> \o FilterKeys(Tail(keys), needle)
         ELSE FilterKeys(Tail(keys), needle)

\* zip.toLowerCase is not a function for a key that is a number: with a
\* search text that is not blank the filter throws while rendering.
FilteredZipsThrows(summaries, term) ==
    /\ Trim(term) # <<>>
    /\ \E i \in 1..Len(summaries) : ~IsStr(summaries[i].zip)

\* useMemo(..., [zipSummaries, searchTerm])
filteredZips(summaries, term) ==
    IF Trim(term) = <<>> THEN ZipKeys(summaries)
    ELSE FilterKeys(ZipKeys(summaries), ToLowerCase(term))

SearchBadgeLimit == 20

\* {searchTerm && filteredZips.slice(0, 20).map(...)}: the keys shown as badges
SearchBadges(summaries, term) ==
    IF term = <<>> THEN <<>>
    ELSE LET found == filteredZips(summaries, term)
         IN  SubSeq(found, 1, IF Len(found) < SearchBadgeLimit THEN Len(found)
                              ELSE SearchBadgeLimit)


----------------------------------------------------------------------------
(* DataExplorer.dataAnalysis *)

\* typeof value
TypeOf(v) ==
    CASE v.t = "str" -> "string"
      [] v.t \in {"num", "nan"} -> "number"
      [] v.t = "null" -> "object"
      [] v.t = "undef" -> "undefined"

HasDigit(cs) == \E i \in 1..Len(cs) : cs[i] \in Digits

\* The date-time string format every engine parses: YYYY, YYYY-MM, YYYY-MM-DD
IsIsoDate(cs) ==
    \/ Len(cs) = 4 /\ IsDigits(cs)
    \/ /\ Len(cs) \in {7, 10}
       /\ IsDigits(SubSeq(cs, 1, 4)) /\ cs[5] = "-" /\ IsDigits(SubSeq(cs, 6, 7))
       /\ DigitsVal(SubSeq(cs, 6, 7)) \in 1..12
       /\ Len(cs) = 10 =>
            /\ cs[8] = "-" /\ IsDigits(SubSeq(cs, 9, 10))
            /\ DigitsVal(SubSeq(cs, 9, 10)) \in 1..31

\* !isNaN(Date.parse(s)).  A string in the date-time string format parses; a
\* string without a digit does not; for any other string the result is left
\* to the engine, whose fallback parser is lenient or not.
DateParses(cs, lenient) == IsIsoDate(cs) \/ (lenient /\ HasDigit(cs))

\* The type recorded for the first value seen of a key: the date test first,
\* then the number test, both on strings only, otherwise typeof
PropertyType(value, lenient) ==
    IF IsStr(value) /\ DateParses(value.s, lenient) THEN "date"
    ELSE IF IsStr(value) /\ ~IsNaN(StringToNumber(value.s)) THEN "numeric"
    ELSE TypeOf(value)

\* The attributes of the files in the order of their fields: Object.entries
\* and Object.values go through a property bag in this order.
FieldOrder ==
    <<"Zip", "ZIP", "zipcode", "Name", "Opened", "Female", "Male", "Schl_Cn", "Pre_K">>

\* Object.keys(props)
Keys(props) == SelectSeq(FieldOrder, LAMBDA k : k \in DOMAIN props)

\* Set.prototype.add on a Set kept as the sequence of its members
SetAdd(values, v) ==
    IF \E i \in 1..Len(values) : values[i] = v THEN values ELSE Append(values, v)

HasColumn(columns, key) == \E i \in 1..Len(columns) : columns[i].name = key

IndexOfColumn(columns, key) == CHOOSE i \in 1..Len(columns) : columns[i].name = key

\* The body that records the type of every value it sees, the last one winning
ObserveEntryRevisingType(columns, key, value, lenient) ==
    IF HasColumn(columns, key)
    THEN [columns EXCEPT ![IndexOfColumn(columns, key)] =
                [@ EXCEPT !.values = SetAdd(@, value),
                          !.type = PropertyType(value, lenient)]]
    ELSE Append(columns, [name |-> key, type |-> PropertyType(value, lenient),
                          values |-> <<value>>])

\* The body that puts a new key in front of the keys seen before
ObserveEntryNewestFirst(columns, key, value, lenient) ==
    IF HasColumn(columns, key)
    THEN [columns EXCEPT ![IndexOfColumn(columns, key)].values = SetAdd(@, value)]
    ELSE <<[name |-> key, type |-> PropertyType(value, lenient),
            values |-> <<value>>]>> \o columns

\* The body of Object.entries(props).forEach: allProperties and propertyTypes
\* are kept together, one entry per key in the order the keys are first seen
ObserveEntry(columns, key, value, lenient) ==
    IF HasColumn(columns, key)
    THEN [columns EXCEPT ![IndexOfColumn(columns, key)].values = SetAdd(@, value)]
    ELSE Append(columns, [name |-> key, type |-> PropertyType(value, lenient),
                          values |-> <<value>>])

\* Object.entries(props).forEach, evaluated entry by entry as ProcessFeatures is
RECURSIVE ObserveEntries(_, _, _, _)
ObserveEntries(columns, props, keys, lenient) ==
    IF keys = <<>> \/ columns # columns THEN columns
    ELSE ObserveEntries(ObserveEntry(columns, Head(keys), props[Head(keys)], lenient),
                        props, Tail(keys), lenient)

\* features.forEach
RECURSIVE ObserveFeatures(_, _, _)
ObserveFeatures(columns, features, lenient) ==
    IF features = <<>> \/ columns # columns THEN columns
    ELSE ObserveFeatures(ObserveEntries(columns, Head(features).properties,
                                        Keys(Head(features).properties), lenient),
                         Tail(features), lenient)

SampleLimit == 3

\* The slice that takes the element at end as well
SliceThroughEnd(seq, start, end) ==
    SubSeq(seq, start + 1, IF end + 1 < Len(seq) THEN end + 1 ELSE Len(seq))

\* Array.prototype.slice(start, end) for 0 <= start <= end
Slice(seq, start, end) ==
    SubSeq(seq, start + 1, IF end < Len(seq) THEN end ELSE Len(seq))

\* Array.from(allProperties.keys()).map(...): propertyTypes.get(key) is never
\* empty, so the fallback 'unknown' is never taken
Columns(observed) ==
    [i \in 1..Len(observed) |->
        [name |-> observed[i].name,
         type |-> observed[i].type,
         uniqueValues |-> Len(observed[i].values),
         sampleValues |-> Slice(observed[i].values, 0, SampleLimit)]]

NullDataAnalysis ==
    [isNull |-> TRUE, totalFeatures |-> 0, totalColumns |-> 0, columns |-> <<>>,
     features |-> <<>>]

\* useMemo(..., [geoJsonData]) for an engine whose date parser is lenient or not
BuildDataAnalysis(data, lenient) ==
    IF ~data.loaded THEN NullDataAnalysis
    ELSE LET columns == Columns(ObserveFeatures(<<>>, data.features, lenient))
         IN  [isNull |-> FALSE, totalFeatures |-> Len(data.features),
              totalColumns |-> Len(columns), columns |-> columns,
              features |-> data.features]

----------------------------------------------------------------------------
(* DataExplorer.filteredData *)

ItemsPerPage == 10

\* The match that compares the values as they are written
MatchesSearchCaseSensitive(feature, searchLower) ==
    \E k \in DOMAIN feature.properties :
        Includes(JSString(feature.properties[k]), searchLower)

\* Object.values(props).some(value => String(value).toLowerCase().includes(searchLower))
MatchesSearch(feature, searchLower) ==
    \E k \in DOMAIN feature.properties :
        Includes(ToLowerCase(JSString(feature.properties[k])), searchLower)

\* The search filter: every feature for a blank text
SearchFeatures(features, term) ==
    IF Trim(term) # <<>>
    THEN SelectSeq(features, LAMBDA f : MatchesSearch(f, ToLowerCase(term)))
    ELSE features

\* The quotient rounded down
FloorDiv(count, size) == count \div size

\* Math.ceil(count / size) for size > 0
CeilDiv(count, size) == (count + size - 1) \div size

\* The window and the page count of a filtered list
Paginate(filtered, page, size) ==
    LET startIndex == (page - 1) * size
    IN  [features |-> Slice(filtered, startIndex, startIndex + size),
         totalPages |-> CeilDiv(Len(filtered), size),
         totalFiltered |-> Num(Len(filtered))]

NullFilteredData == [features |-> <<>>, totalPages |-> 0, totalFiltered |-> Undef]

\* useMemo(..., [dataAnalysis, searchTerm, currentPage, itemsPerPage])
FilteredData(analysis, term, page) ==
    IF analysis.isNull THEN NullFilteredData
    ELSE Paginate(SearchFeatures(analysis.features, term), page, ItemsPerPage)

\* FilterPanel, the search step of the filter effect with the district and
\* the ZIP filters at 'all'
FilterPanelSearch(features, term) ==
    IF Trim(term) # <<>>
    THEN SelectSeq(features, LAMBDA f : MatchesSearch(f, ToLowerCase(term)))
    ELSE features

----------------------------------------------------------------------------
(* Index and FileUpload: the values of their state *)

\* originalGeoJson === null
NoCollection == "null"

\* The collection the cache holds at mount, and the one an upload decodes to
CachedCollection == "c"

UploadedCollection == "g"

\* 24 hours in milliseconds
CACHE_DURATION == 24 * 60 * 60 * 1000

\* Date.now() during the session, which is short against the cache duration
Now == 2 * CACHE_DURATION

\* The object store without the record 'geojson-cache'
NoRecord == [stored |-> FALSE, data |-> NoCollection, timestamp |-> 0]

\* The record saveToIndexedDB puts: {id: 'geojson-cache', data, timestamp}
Record(data, timestamp) == [stored |-> TRUE, data |-> data, timestamp |-> timestamp]

\* The ages a record found at mount can have, around the cache duration
RecordAges == {0, CACHE_DURATION - 1, CACHE_DURATION, CACHE_DURATION + 1}

\* The store at mount: empty, or a record of an earlier session
StoresAtMount == {NoRecord} \cup {Record(CachedCollection, Now - age) : age \in RecordAges}

\* The test that takes a record as old as the cache duration as valid
CacheIsValidThroughDuration(record) == Now - record.timestamp <= CACHE_DURATION

\* age < CACHE_DURATION
CacheIsValid(record) == Now - record.timestamp < CACHE_DURATION

\* A request to IndexedDB under way: store.put(record) or
\* store.delete('geojson-cache'), with the caller that awaits it
Request(op, data, caller) == [op |-> op, data |-> data, caller |-> caller]

MaxRequests == 2

\* error === null, and the two messages of FileUpload
NoError == "null"

DecodeError == "Failed to process shapefile. Please check your files and try again."

\* uploadedFiles === {}
NoFiles == [ext \in {} |-> <<>>]

\* The index of the last "." of a name, 0 without one
LastDot(name) ==
    IF \E i \in 1..Len(name) : name[i] = "."
    THEN CHOOSE i \in 1..Len(name) :
            name[i] = "." /\ \A j \in (i + 1)..Len(name) : name[j] # "."
    ELSE 0

\* file.name.toLowerCase().split('.').pop()
ExtensionOf(name) == SubSeq(ToLowerCase(name), LastDot(name) + 1, Len(name))

\* The key of uploadedFiles an extension stands for, "none" for any other
ExtensionKey(extension) ==
    CASE extension = <<"s", "h", "p">> -> "shp"
      [] extension = <<"d", "b", "f">> -> "dbf"
      [] extension = <<"s", "h", "x">> -> "shx"
      [] extension = <<"p", "r", "j">> -> "prj"
      [] OTHER -> "none"

\* The body of files.forEach: a file of one of the four extensions is put
\* under its extension, any other file is passed over
WithFile(newFiles, name) ==
    LET key == ExtensionKey(ExtensionOf(name))
    IN  IF key = "none" THEN newFiles
        ELSE [ext \in (DOMAIN newFiles) \cup {key} |->
                IF ext = key THEN name ELSE newFiles[ext]]

\* files.forEach
RECURSIVE WithFiles(_, _)
WithFiles(newFiles, files) ==
    IF files = <<>> THEN newFiles
    ELSE WithFiles(WithFile(newFiles, Head(files)), Tail(files))

\* uploadedFiles as handleFiles reads it.  handleDrop and handleFileInput are
\* useCallback(..., []): they keep the handleFiles of the first render, whose
\* uploadedFiles is the initial state {}.
UploadedFilesOfHandler == NoFiles

\* handleFiles: const newFiles = { ...uploadedFiles }; files.forEach(...)
HandleFiles(files) == WithFiles(UploadedFilesOfHandler, files)

\* uploadedFiles.shp && uploadedFiles.dbf
hasRequiredFiles(files) == "shp" \in DOMAIN files /\ "dbf" \in DOMAIN files

\* The selections and drops of the model: a .shp file, a .dbf file with
\* capitals in its extension, the files of a shapefile together, and a file
\* that is none of them
FileSelections ==
    { << <<"a", ".", "s", "h", "p">> >>,
      << <<"b", ".", "d", "B", "f">> >>,
      << <<"c", ".", "s", "h", "p">>, <<"c", ".", "d", "b", "f">>,
         <<"c", ".", "p", "r", "j">> >>,
      << <<"n", ".", "t", "x", "t">> >> }

\* Index and FileUpload before anything happened: useState initial values, an
\* empty store, the mount effect not yet run
IndexIdle ==
    /\ originalGeoJson = NoCollection
    /\ isLoadingFromCache = TRUE
    /\ cacheRecord = NoRecord
    /\ idbRequests = <<>>
    /\ cacheLoad = "mount"
    /\ timeoutId = FALSE
    /\ uploadedFiles = NoFiles
    /\ isLoading = FALSE
    /\ error = NoError

----------------------------------------------------------------------------
(* Feature collections of the model *)

Zip75001 == <<"7", "5", "0", "0", "1">>

Zip75002 == <<"7", "5", "0", "0", "2">>

Zip75003 == <<"7", "5", "0", "0", "3">>

Feature(props) == [properties |-> props]

\* The features of the sessions in the order of their file: a group per key,
\* the third under the last alias and with a school count.
SessionFeatures ==
    << Feature("Zip" :> Str(Zip75001) @@ "Female" :> Num(10) @@ "Male" :> Num(5)),
       Feature("Zip" :> Str(Zip75002) @@ "Female" :> Num(0) @@ "Male" :> Num(0)),
       Feature("zipcode" :> Str(Zip75003) @@ "Female" :> Num(2) @@ "Male" :> Num(1)
               @@ "Schl_Cn" :> Num(1)) >>

\* The values an alias attribute takes: absent, null, empty, zero, a ZIP as
\* text and a ZIP as a number.
ZipValues == {Undef, Null, Str(<<>>), Num(0), Str(Zip75001), Num(75001)}

ZIPValues == {Undef, Str(<<>>), Str(Zip75002)}

zipcodeValues == {Undef, Str(Zip75003)}

\* The values a count attribute takes: absent, null, zero, a count, a count
\* as text, text that is no number, text that starts with a number, and a
\* negative number.
CountValues ==
    {Undef, Null, Num(0), Num(3), Str(<<"7">>), Str(<<"a", "b", "c">>),
     Str(<<"1", "2", "a">>), Num(0 - 2)}

\* The values of the school and grade counts
GradeValues == {Undef, Num(0), Num(3), Str(<<"a", "b", "c">>), Num(0 - 2)}

\* A property bag of the given attributes, those of value undefined left out
Bag(keys, vals) ==
    LET present == {i \in 1..Len(keys) : vals[i] # Undef}
    IN  [k \in {keys[i] : i \in present} |->
            vals[CHOOSE i \in present : keys[i] = k]]

\* The features whose shape is varied: every combination of the three
\* aliases; every pair of Female and Male values; every pair of Schl_Cn and
\* Pre_K values.
VariedFeatures ==
    {Feature(Bag(<<"Zip", "ZIP", "zipcode", "Female", "Male">>,
                 <<a, b, c, Num(1), Num(1)>>)) :
        a \in ZipValues, b \in ZIPValues, c \in zipcodeValues}
    \cup
    {Feature(Bag(<<"Zip", "Female", "Male", "Schl_Cn">>,
                 <<Str(Zip75001), f, m, Num(1)>>)) :
        f \in CountValues, m \in CountValues}
    \cup
    {Feature(Bag(<<"Zip", "Female", "Male", "Schl_Cn", "Pre_K">>,
                 <<Str(Zip75001), Num(3), Num(2), sc, pk>>)) :
        sc \in GradeValues, pk \in GradeValues}

\* The features that surround a varied one: one of its group, one of another
ContextFeatures ==
    { Feature("Zip" :> Str(Zip75001) @@ "Female" :> Num(3) @@ "Male" :> Num(2)
              @@ "Schl_Cn" :> Num(2) @@ "Pre_K" :> Num(4)),
      Feature("Zip" :> Str(Zip75002) @@ "Female" :> Num(4) @@ "Male" :> Num(0)) }

MaxFeatures == 2

SeqsUpTo(S, n) == UNION {[1..k -> S] : k \in 0..n}

NoData == [loaded |-> FALSE, features |-> <<>>]

Collection(features) == [loaded |-> TRUE, features |-> features]

\* The collection of the documented scenario
ScenarioCollection ==
    Collection(<<
      Feature("Zip" :> Str(Zip75001) @@ "Female" :> Num(10) @@ "Male" :> Num(5)),
      Feature("Zip" :> Str(Zip75001) @@ "Female" :> Num(3) @@ "Male" :> Num(2)),
      Feature("Zip" :> Str(Zip75002) @@ "Female" :> Num(0) @@ "Male" :> Num(0)) >>)

\* Two groups of the same primary total
TiedCollection ==
    Collection(<<
      Feature("Zip" :> Str(Zip75001) @@ "Female" :> Num(2) @@ "Male" :> Num(1)),
      Feature("Zip" :> Str(Zip75002) @@ "Female" :> Num(1) @@ "Male" :> Num(2)) >>)

\* The selections of the features of a file, in the order of the file
RECURSIVE SubLists(_)
SubLists(list) ==
    IF list = <<>> THEN {<<>>}
    ELSE SubLists(Tail(list))
            \cup {<<Head(list)>> \o rest : rest \in SubLists(Tail(list))}

\* The collections of at most MaxFeatures features of the sessions
SessionCollections ==
    {Collection(fs) : fs \in {l \in SubLists(SessionFeatures) : Len(l) <= MaxFeatures}}
    \cup {ScenarioCollection}

\* The collections of at most MaxFeatures features of which one is varied
VariedCollections ==
    {Collection(pp[1] \o <<f>> \o pp[2]) :
        f \in VariedFeatures,
        pp \in {qq \in SeqsUpTo(ContextFeatures, MaxFeatures - 1)
                        \X SeqsUpTo(ContextFeatures, MaxFeatures - 1) :
                    Len(qq[1]) + Len(qq[2]) < MaxFeatures}}

SearchTerms == {<<>>, <<" ">>, <<"7", "5", "0">>}

----------------------------------------------------------------------------
(* The session: OverviewMap and ZipCodeAnalyzer over one feature collection *)

\* The collections the geoJsonData prop takes in a session
DataUniverse == {NoData} \cup SessionCollections

\* The values the builders give for each of them
ZipSummariesMemo == [data \in DataUniverse |-> BuildZipSummaries(data)]

ZipAnalysisMemo == [data \in DataUniverse |-> ZipAnalysisOutcomes(data)]

\* What a render computes from the selection and the search text: the
\* aggregated summary, and whether rendering the search badges throws.
Rendered(summaries, selected, term) ==
    /\ selectedZips' = selected
    /\ searchTerm' = term
    /\ aggregatedData' = Aggregate(selected, summaries)
    /\ renderError' = FilteredZipsThrows(summaries, term)

\* useMemo(..., [geoJsonData]): the group indexes are kept while the
\* collection is the same
SameData == UNCHANGED <<geoJsonData, zipSummaries, zipAnalysis>>

\* Mount: the component is constructed with the collection of its props, or
\* with none.  The map is created by the mount effect only when the map
\* container is rendered, that is when a collection is there.
Mounted(data, summaries, analysis) ==
    /\ geoJsonData = data
    /\ zipSummaries = summaries
    /\ zipAnalysis = analysis
    /\ selectedZips = <<>>
    /\ searchTerm = <<>>
    /\ showAggregatedView = FALSE
    /\ aggregatedData = NullAggregate
    /\ mapInstance = data.loaded
    /\ renderError = FALSE
    /\ lastEvent = "mount"

\* DataExplorer is not mounted
ExplorerIdle ==
    /\ explorerSearchTerm = <<>>
    /\ currentPage = 1
    /\ dataAnalysis = NullDataAnalysis
    /\ filteredData = NullFilteredData
    /\ lenientDateParser = FALSE

Init ==
    \E data \in DataUniverse :
        \E analysis \in ZipAnalysisMemo[data] :
            Mounted(data, ZipSummariesMemo[data], analysis) /\ ExplorerIdle /\ IndexIdle

\* The geoJsonData prop changes: an upload, a cache load, or Clear Cache.
\* Without a collection the component renders nothing, and the map container
\* leaves the document.
LoadData(data) ==
    /\ ~renderError
    /\ data # geoJsonData
    /\ geoJsonData' = data
    /\ zipSummaries' = ZipSummariesMemo[data]
    /\ zipAnalysis' \in ZipAnalysisMemo[data]
    /\ Rendered(zipSummaries', selectedZips, searchTerm)
    /\ mapInstance' = (mapInstance /\ data.loaded)
    /\ lastEvent' = "load"
    /\ UNCHANGED explorerVars
    /\ UNCHANGED indexVars
    /\ UNCHANGED showAggregatedView

Selected(selected, zip) == \E i \in 1..Len(selected) : selected[i] = zip

\* The updater with a new key put in front
ToggleZipInFront(currentSelected, zip) ==
    IF Selected(currentSelected, zip)
    THEN SelectSeq(currentSelected, LAMBDA z : z # zip)
    ELSE <<zip>> \o currentSelected

\* The functional updater of the layer click handler
ToggleZip(currentSelected, zip) ==
    IF Selected(currentSelected, zip)
    THEN SelectSeq(currentSelected, LAMBDA z : z # zip)
    ELSE Append(currentSelected, zip)

\* layer.on('click'): the layer carries a handler for every feature whose key
\* has a summary.
MapClick(zip) ==
    /\ ~renderError
    /\ mapInstance
    /\ geoJsonData.loaded
    /\ HasZip(zipSummaries, zip)
    /\ Rendered(zipSummaries, ToggleZip(selectedZips, zip), searchTerm)
    /\ SameData
    /\ lastEvent' = "mapClick"
    /\ UNCHANGED explorerVars
    /\ UNCHANGED indexVars
    /\ UNCHANGED <<showAggregatedView, mapInstance>>

\* The badge handler that adds whatever the render saw
BadgeToggleAdding(prev, zip, isSelected) == Append(prev, zip)

\* Badge onClick in the search results: isSelected is the value of the render
\* that created the handler.
BadgeToggle(prev, zip, isSelected) ==
    IF isSelected THEN SelectSeq(prev, LAMBDA z : z # zip)
    ELSE Append(prev, zip)

BadgeClick(zip) ==
    /\ ~renderError
    /\ geoJsonData.loaded
    /\ Selected(SearchBadges(zipSummaries, searchTerm), zip)
    /\ Rendered(zipSummaries,
                BadgeToggle(selectedZips, zip, Selected(selectedZips, zip)),
                searchTerm)
    /\ SameData
    /\ lastEvent' = "badgeClick"
    /\ UNCHANGED explorerVars
    /\ UNCHANGED indexVars
    /\ UNCHANGED <<showAggregatedView, mapInstance>>

\* The X of a selected badge: prev.filter(z => z !== zip)
RemoveZip(prev, zip) == SelectSeq(prev, LAMBDA z : z # zip)

RemoveClick(zip) ==
    /\ ~renderError
    /\ geoJsonData.loaded
    /\ Selected(selectedZips, zip)
    /\ Rendered(zipSummaries, RemoveZip(selectedZips, zip), searchTerm)
    /\ SameData
    /\ lastEvent' = "removeClick"
    /\ UNCHANGED explorerVars
    /\ UNCHANGED indexVars
    /\ UNCHANGED <<showAggregatedView, mapInstance>>

\* Clear All that empties the search text with the selection
ClearAllAndSearch ==
    /\ ~renderError
    /\ geoJsonData.loaded
    /\ Len(selectedZips) # 0
    /\ Rendered(zipSummaries, <<>>, <<>>)
    /\ SameData
    /\ showAggregatedView' = FALSE
    /\ lastEvent' = "clearAll"
    /\ UNCHANGED explorerVars
    /\ UNCHANGED indexVars
    /\ UNCHANGED mapInstance

\* Clear All, disabled while the selection is empty
ClearAll ==
    /\ ~renderError
    /\ geoJsonData.loaded
    /\ Len(selectedZips) # 0
    /\ Rendered(zipSummaries, <<>>, searchTerm)
    /\ SameData
    /\ showAggregatedView' = FALSE
    /\ lastEvent' = "clearAll"
    /\ UNCHANGED explorerVars
    /\ UNCHANGED indexVars
    /\ UNCHANGED mapInstance

\* onChange of the search input
SetSearchTerm(term) ==
    /\ ~renderError
    /\ geoJsonData.loaded
    /\ term # searchTerm
    /\ Rendered(zipSummaries, selectedZips, term)
    /\ SameData
    /\ lastEvent' = "search"
    /\ UNCHANGED explorerVars
    /\ UNCHANGED indexVars
    /\ UNCHANGED <<showAggregatedView, mapInstance>>

\* The events on the component as it is rendered
UserEvent ==
    \/ \E i \in 1..Len(zipSummaries) : MapClick(zipSummaries[i].zip)
    \/ \E i \in 1..Len(zipSummaries) : BadgeClick(zipSummaries[i].zip)
    \/ \E i \in 1..Len(selectedZips) : RemoveClick(selectedZips[i])
    \/ ClearAll
    \/ \E term \in SearchTerms : SetSearchTerm(term)

Next ==
    \/ \E data \in DataUniverse : LoadData(data)
    \/ UserEvent

\* A session: the component is mounted with or without a collection, the
\* collection is replaced, and the user selects and searches.
Spec == Init /\ [][Next]_vars

\* The component mounted once with a collection of varied shape.
InitVaried ==
    \E data \in VariedCollections \cup {ScenarioCollection, TiedCollection} :
        \E analysis \in ZipAnalysisOutcomes(data) :
            Mounted(data, BuildZipSummaries(data), analysis) /\ ExplorerIdle /\ IndexIdle

\* The selection events: the search of this component stays empty
NextVaried ==
    \/ \E i \in 1..Len(zipSummaries) : MapClick(zipSummaries[i].zip)
    \/ \E i \in 1..Len(selectedZips) : RemoveClick(selectedZips[i])
    \/ ClearAll

SpecVaried == InitVaried /\ [][NextVaried]_vars


----------------------------------------------------------------------------
(* The session of DataExplorer: the Data tab over one feature collection *)

\* The features of the files explored, in the order of their file: a ZIP kept
\* as a number, one kept as text with a year and a count kept as text, a
\* feature without any alias, and one with a null name and a full date.
ExplorerFeatures ==
    << Feature("ZIP" :> Num(75001) @@ "Name" :> Str(<<"A", "b">>)),
       Feature("ZIP" :> Str(Zip75002) @@ "Opened" :> Str(<<"2", "0", "2", "0">>)
               @@ "Female" :> Str(<<"7">>)),
       Feature("Name" :> Str(<<"Z", "A", "B">>) @@ "Female" :> Num(3)),
       Feature("zipcode" :> Str(Zip75003) @@ "Name" :> Null
               @@ "Opened" :> Str(<<"2", "0", "2", "0", "-", "0", "1", "-", "1", "5">>)) >>

ShortFileLen == 11

LongFileLen == 31

\* A file of n features of one ZIP, told apart by their count
PagedCollection(n) ==
    Collection([i \in 1..n |-> Feature("ZIP" :> Str(Zip75001) @@ "Female" :> Num(i))])

ExplorerCollections ==
    {Collection(fs) : fs \in {l \in SubLists(ExplorerFeatures) : Len(l) <= MaxFeatures}}
    \cup {ScenarioCollection, PagedCollection(ShortFileLen), PagedCollection(LongFileLen)}

ExplorerUniverse == {NoData} \cup ExplorerCollections

ExplorerTerms ==
    {<<>>, <<" ">>, <<"7", "5", "0">>, <<"9", "9", "9", "9">>, <<"a", "B">>, <<"1">>}

\* What a render of DataExplorer computes from its search text and its page
ExplorerRendered(analysis, term, page) ==
    /\ explorerSearchTerm' = term
    /\ currentPage' = page
    /\ filteredData' = FilteredData(analysis, term, page)

\* The state of OverviewMap is left alone
OverviewIdle ==
    UNCHANGED <<selectedZips, searchTerm, showAggregatedView, aggregatedData,
                mapInstance, renderError>>

\* Mount of the Data tab: useState('') and useState(1)
InitExplorer ==
    \E data \in ExplorerUniverse :
        \E analysis \in ZipAnalysisOutcomes(data) :
            \E lenient \in BOOLEAN :
                /\ Mounted(data, BuildZipSummaries(data), analysis)
                /\ lenientDateParser = lenient
                /\ dataAnalysis = BuildDataAnalysis(data, lenient)
                /\ explorerSearchTerm = <<>>
                /\ currentPage = 1
                /\ filteredData = FilteredData(dataAnalysis, <<>>, 1)
                /\ IndexIdle

\* The geoJsonData prop changes while the Data tab is shown: Replace, or Clear
\* Cache.  searchTerm and currentPage are state of the component and stay.
ExplorerLoad(data) ==
    /\ data # geoJsonData
    /\ geoJsonData' = data
    /\ zipSummaries' = BuildZipSummaries(data)
    /\ zipAnalysis' \in ZipAnalysisOutcomes(data)
    /\ dataAnalysis' = BuildDataAnalysis(data, lenientDateParser)
    /\ ExplorerRendered(dataAnalysis', explorerSearchTerm, currentPage)
    /\ Rendered(zipSummaries', selectedZips, searchTerm)
    /\ mapInstance' = (mapInstance /\ data.loaded)
    /\ lastEvent' = "explorerLoad"
    /\ UNCHANGED <<showAggregatedView, lenientDateParser>>
    /\ UNCHANGED indexVars

\* The search with the page left where it is
ExplorerSearchKeepingPage(term) ==
    /\ ~dataAnalysis.isNull
    /\ term # explorerSearchTerm
    /\ ExplorerRendered(dataAnalysis, term, currentPage)
    /\ lastEvent' = "explorerSearch"
    /\ SameData
    /\ OverviewIdle
    /\ UNCHANGED <<dataAnalysis, lenientDateParser>>
    /\ UNCHANGED indexVars

\* onChange of the search input: setSearchTerm(e.target.value); setCurrentPage(1)
ExplorerSearch(term) ==
    /\ ~dataAnalysis.isNull
    /\ term # explorerSearchTerm
    /\ ExplorerRendered(dataAnalysis, term, 1)
    /\ lastEvent' = "explorerSearch"
    /\ SameData
    /\ OverviewIdle
    /\ UNCHANGED <<dataAnalysis, lenientDateParser>>
    /\ UNCHANGED indexVars

Min(a, b) == IF a < b THEN a ELSE b

Max(a, b) == IF a > b THEN a ELSE b

\* Next: rendered when totalPages > 1, disabled on the last page
NextPage ==
    /\ ~dataAnalysis.isNull
    /\ filteredData.totalPages > 1
    /\ currentPage # filteredData.totalPages
    /\ ExplorerRendered(dataAnalysis, explorerSearchTerm,
                        Min(filteredData.totalPages, currentPage + 1))
    /\ lastEvent' = "nextPage"
    /\ SameData
    /\ OverviewIdle
    /\ UNCHANGED <<dataAnalysis, lenientDateParser>>
    /\ UNCHANGED indexVars

\* Previous: rendered when totalPages > 1, disabled on page 1
PreviousPage ==
    /\ ~dataAnalysis.isNull
    /\ filteredData.totalPages > 1
    /\ currentPage # 1
    /\ ExplorerRendered(dataAnalysis, explorerSearchTerm, Max(1, currentPage - 1))
    /\ lastEvent' = "previousPage"
    /\ SameData
    /\ OverviewIdle
    /\ UNCHANGED <<dataAnalysis, lenientDateParser>>
    /\ UNCHANGED indexVars

NextExplorer ==
    \/ \E data \in ExplorerUniverse : ExplorerLoad(data)
    \/ \E term \in ExplorerTerms : ExplorerSearch(term)
    \/ NextPage
    \/ PreviousPage

\* A session of the Data tab: the collection is replaced, the user searches
\* and turns the pages.
SpecExplorer == InitExplorer /\ [][NextExplorer]_vars

----------------------------------------------------------------------------
(* The session of Index and FileUpload: cache load, upload, Clear Cache *)

\* The components below Index are left alone
ViewsIdle ==
    /\ UNCHANGED <<geoJsonData, zipSummaries, zipAnalysis, selectedZips, searchTerm,
                   showAggregatedView, aggregatedData, mapInstance, renderError>>
    /\ UNCHANGED explorerVars

\* Index is rendered for the first time: the loading view, the mount effect
\* not yet run, the store as an earlier session left it
InitIndex ==
    /\ Mounted(NoData, <<>>, NullAnalysis)
    /\ ExplorerIdle
    /\ originalGeoJson = NoCollection
    /\ isLoadingFromCache = TRUE
    /\ cacheRecord \in StoresAtMount
    /\ idbRequests = <<>>
    /\ cacheLoad = "mount"
    /\ timeoutId = FALSE
    /\ uploadedFiles = NoFiles
    /\ isLoading = FALSE
    /\ error = NoError

\* The end of loadFromCache: finally { setIsLoadingFromCache(false) }, then
\* .then(() => clearTimeout(timeoutId))
CacheLoadEnds ==
    /\ cacheLoad' = "done"
    /\ isLoadingFromCache' = FALSE
    /\ timeoutId' = FALSE

\* The mount effect: setTimeout(..., 5000) and loadFromCache() up to its first
\* await.  Without window.indexedDB the load ends at once; with it, it waits
\* for openDB.
MountEffect ==
    /\ cacheLoad = "mount"
    /\ \E supported \in BOOLEAN :
            IF supported
            THEN cacheLoad' = "openDB" /\ timeoutId' = TRUE
                    /\ UNCHANGED isLoadingFromCache
            ELSE CacheLoadEnds
    /\ lastEvent' = "mountEffect"
    /\ UNCHANGED <<originalGeoJson, cacheRecord, idbRequests, uploadedFiles,
                   isLoading, error>>
    /\ ViewsIdle

\* The timeout that leaves the loading state where it is
LoadingTimeoutIdle ==
    /\ timeoutId
    /\ timeoutId' = FALSE
    /\ lastEvent' = "timeout"
    /\ UNCHANGED <<originalGeoJson, isLoadingFromCache, cacheRecord, idbRequests,
                   cacheLoad, uploadedFiles, isLoading, error>>
    /\ ViewsIdle

\* The callback of setTimeout: setIsLoadingFromCache(false).  The cache load
\* goes on.
LoadingTimeout ==
    /\ timeoutId
    /\ isLoadingFromCache' = FALSE
    /\ timeoutId' = FALSE
    /\ lastEvent' = "timeout"
    /\ UNCHANGED <<originalGeoJson, cacheRecord, idbRequests, cacheLoad,
                   uploadedFiles, isLoading, error>>
    /\ ViewsIdle

\* openDB rejects, or db.transaction throws: the catch of loadFromIndexedDB
\* returns null, and loadFromCache ends without a collection
CacheOpenFails ==
    /\ cacheLoad = "openDB"
    /\ CacheLoadEnds
    /\ lastEvent' = "cacheOpenFailed"
    /\ UNCHANGED <<originalGeoJson, cacheRecord, idbRequests, uploadedFiles,
                   isLoading, error>>
    /\ ViewsIdle

\* openDB resolves: store.get('geojson-cache') is requested
CacheOpenSucceeds ==
    /\ cacheLoad = "openDB"
    /\ cacheLoad' = "get"
    /\ lastEvent' = "cacheOpened"
    /\ UNCHANGED <<originalGeoJson, isLoadingFromCache, cacheRecord, idbRequests,
                   timeoutId, uploadedFiles, isLoading, error>>
    /\ ViewsIdle

\* request.onsuccess of loadFromIndexedDB, and what loadFromCache does with
\* its result: no record resolves to null; a valid record resolves to its
\* data, which loadFromCache sets as the collection; any other record is
\* cleared, without awaiting, and resolves to null
CacheGetSucceeds ==
    /\ cacheLoad = "get"
    /\ IF ~cacheRecord.stored
       THEN UNCHANGED <<originalGeoJson, idbRequests>>
       ELSE IF CacheIsValid(cacheRecord)
       THEN originalGeoJson' = cacheRecord.data /\ UNCHANGED idbRequests
       ELSE /\ Len(idbRequests) < MaxRequests
            /\ idbRequests' = Append(idbRequests, Request("delete", NoCollection, "expired"))
            /\ UNCHANGED originalGeoJson
    /\ CacheLoadEnds
    /\ lastEvent' = "cacheRead"
    /\ UNCHANGED <<cacheRecord, uploadedFiles, isLoading, error>>
    /\ ViewsIdle

\* request.onerror: the promise rejects, and the catch of loadFromCache awaits
\* clearIndexedDBCache() before its finally
CacheGetFails ==
    /\ cacheLoad = "get"
    /\ Len(idbRequests) < MaxRequests
    /\ cacheLoad' = "clearing"
    /\ idbRequests' = Append(idbRequests, Request("delete", NoCollection, "loadError"))
    /\ lastEvent' = "cacheReadFailed"
    /\ UNCHANGED <<originalGeoJson, isLoadingFromCache, cacheRecord, timeoutId,
                   uploadedFiles, isLoading, error>>
    /\ ViewsIdle

\* What the caller of a request does once the request is settled: the catch
\* of loadFromCache goes on to its finally; clearCache resets the collection
\* unless the delete request itself failed; any other caller leaves the state
\* of Index alone
CallerResumes(request, reset) ==
    /\ IF request.caller = "loadError"
       THEN CacheLoadEnds
       ELSE UNCHANGED <<cacheLoad, isLoadingFromCache, timeoutId>>
    /\ originalGeoJson' =
            IF request.caller = "clearCache" /\ reset THEN NoCollection
            ELSE originalGeoJson

\* The oldest request succeeds: the record is put with the time of the day,
\* or deleted.  After the delete of its retry, handleGeoJsonLoaded saves again.
RequestSucceeds ==
    /\ idbRequests # <<>>
    /\ LET request == Head(idbRequests)
       IN  /\ cacheRecord' = IF request.op = "put" THEN Record(request.data, Now)
                             ELSE NoRecord
           /\ idbRequests' =
                Tail(idbRequests)
                    \o IF request.caller = "retryClear"
                       THEN <<Request("put", request.data, "retrySave")>>
                       ELSE <<>>
           /\ CallerResumes(request, TRUE)
    /\ lastEvent' = "requestSucceeded"
    /\ UNCHANGED <<uploadedFiles, isLoading, error>>
    /\ ViewsIdle

\* The oldest request fails, at openDB or at the request itself.  A failed
\* save is retried after a delete (the catch of handleGeoJsonLoaded).
\* clearIndexedDBCache catches a failure of openDB and resolves, so its caller
\* goes on as after a success; a failure of its delete request rejects.
RequestFails(atOpen) ==
    /\ idbRequests # <<>>
    /\ LET request == Head(idbRequests)
       IN  /\ idbRequests' =
                Tail(idbRequests)
                    \o IF request.caller = "save"
                       THEN <<Request("delete", request.data, "retryClear")>>
                       ELSE IF request.caller = "retryClear" /\ atOpen
                       THEN <<Request("put", request.data, "retrySave")>>
                       ELSE <<>>
           /\ CallerResumes(request, atOpen)
    /\ lastEvent' = "requestFailed"
    /\ UNCHANGED <<cacheRecord, uploadedFiles, isLoading, error>>
    /\ ViewsIdle

\* clearCache, the button shown when a collection is loaded: it awaits
\* clearIndexedDBCache() before it resets the collection
ClearCache ==
    /\ ~isLoadingFromCache
    /\ originalGeoJson # NoCollection
    /\ Len(idbRequests) < MaxRequests
    /\ idbRequests' = Append(idbRequests, Request("delete", NoCollection, "clearCache"))
    /\ lastEvent' = "clearCache"
    /\ UNCHANGED <<originalGeoJson, isLoadingFromCache, cacheRecord, cacheLoad,
                   timeoutId, uploadedFiles, isLoading, error>>
    /\ ViewsIdle

\* handleDrop and handleFileInput: FileUpload is rendered once the loading
\* view is gone
FilesChosen(files) ==
    /\ ~isLoadingFromCache
    /\ uploadedFiles' = HandleFiles(files)
    /\ error' = NoError
    /\ lastEvent' = "handleFiles"
    /\ UNCHANGED <<originalGeoJson, isLoadingFromCache, cacheRecord, idbRequests,
                   cacheLoad, timeoutId, isLoading>>
    /\ ViewsIdle

\* resetFiles: the Reset button of the full view, shown when a file is held
ResetFiles ==
    /\ ~isLoadingFromCache
    /\ originalGeoJson = NoCollection
    /\ DOMAIN uploadedFiles # {}
    /\ uploadedFiles' = NoFiles
    /\ error' = NoError
    /\ lastEvent' = "resetFiles"
    /\ UNCHANGED <<originalGeoJson, isLoadingFromCache, cacheRecord, idbRequests,
                   cacheLoad, timeoutId, isLoading>>
    /\ ViewsIdle

\* processShapefile up to its first await: the Load button is disabled
\* without both required files and while loading, so the test of the files
\* at its start never fails
ProcessShapefile ==
    /\ ~isLoadingFromCache
    /\ hasRequiredFiles(uploadedFiles)
    /\ ~isLoading
    /\ isLoading' = TRUE
    /\ error' = NoError
    /\ lastEvent' = "processShapefile"
    /\ UNCHANGED <<originalGeoJson, isLoadingFromCache, cacheRecord, idbRequests,
                   cacheLoad, timeoutId, uploadedFiles>>
    /\ ViewsIdle

\* The failure that also drops the collection loaded before
DecodeFailsDroppingCollection ==
    /\ isLoading
    /\ error' = DecodeError
    /\ isLoading' = FALSE
    /\ originalGeoJson' = NoCollection
    /\ lastEvent' = "decodeFailed"
    /\ UNCHANGED <<isLoadingFromCache, cacheRecord, idbRequests, cacheLoad,
                   timeoutId, uploadedFiles>>
    /\ ViewsIdle

\* arrayBuffer() or shapefile.read rejects: catch { setError(...) },
\* finally { setIsLoading(false) }
DecodeFails ==
    /\ isLoading
    /\ error' = DecodeError
    /\ isLoading' = FALSE
    /\ lastEvent' = "decodeFailed"
    /\ UNCHANGED <<originalGeoJson, isLoadingFromCache, cacheRecord, idbRequests,
                   cacheLoad, timeoutId, uploadedFiles>>
    /\ ViewsIdle

\* shapefile.read resolves: onGeoJsonLoaded(geoJson), that is
\* handleGeoJsonLoaded up to its first await (setOriginalGeoJson, then
\* saveToIndexedDB requested), and finally { setIsLoading(false) }
DecodeSucceeds(geoJson) ==
    /\ isLoading
    /\ Len(idbRequests) < MaxRequests
    /\ originalGeoJson' = geoJson
    /\ idbRequests' = Append(idbRequests, Request("put", geoJson, "save"))
    /\ isLoading' = FALSE
    /\ lastEvent' = "geoJsonLoaded"
    /\ UNCHANGED <<isLoadingFromCache, cacheRecord, cacheLoad, timeoutId,
                   uploadedFiles, error>>
    /\ ViewsIdle

NextIndex ==
    \/ MountEffect
    \/ LoadingTimeout
    \/ CacheOpenFails
    \/ CacheOpenSucceeds
    \/ CacheGetSucceeds
    \/ CacheGetFails
    \/ RequestSucceeds
    \/ \E atOpen \in BOOLEAN : RequestFails(atOpen)
    \/ ClearCache
    \/ \E files \in FileSelections : FilesChosen(files)
    \/ ResetFiles
    \/ ProcessShapefile
    \/ DecodeFails
    \/ DecodeSucceeds(UploadedCollection)

\* A session of Index: the cache load of the mount effect, uploads, and Clear
\* Cache, every asynchronous step taken in any order.
SpecIndex == InitIndex /\ [][NextIndex]_vars

\* The same session in which the effect of the mount runs and a timer that is
\* armed fires.  Nothing is assumed of IndexedDB: a request may never settle.
SpecIndexFair ==
    SpecIndex /\ WF_vars(MountEffect) /\ WF_vars(LoadingTimeout)

----------------------------------------------------------------------------
(* Properties: arithmetic the properties are stated against *)

Range(seq) == {seq[i] : i \in 1..Len(seq)}

\* The total fields of an aggregated summary
Totals(agg) ==
    [totalStudents |-> agg.totalStudents, totalPopulation |-> agg.totalPopulation,
     totalFemale |-> agg.totalFemale, totalMale |-> agg.totalMale,
     totalRecords |-> agg.totalRecords, totalSchools |-> agg.totalSchools,
     processedTotals |-> agg.processedTotals]

ZeroTotals ==
    [totalStudents |-> Num(0), totalPopulation |-> Num(0), totalFemale |-> Num(0),
     totalMale |-> Num(0), totalRecords |-> 0, totalSchools |-> Num(0),
     processedTotals |-> EmptyTotals]

TotalOf(totals, k) == IF k \in DOMAIN totals THEN totals[k] ELSE Num(0)

\* The element-wise sum of the totals of two summaries
SumOfTotals(a, b) ==
    [totalStudents |-> Plus(a.totalStudents, b.totalStudents),
     totalPopulation |-> Plus(a.totalPopulation, b.totalPopulation),
     totalFemale |-> Plus(a.totalFemale, b.totalFemale),
     totalMale |-> Plus(a.totalMale, b.totalMale),
     totalRecords |-> a.totalRecords + b.totalRecords,
     totalSchools |-> Plus(a.totalSchools, b.totalSchools),
     processedTotals |->
        [k \in (DOMAIN a.processedTotals) \cup (DOMAIN b.processedTotals) |->
            Plus(TotalOf(a.processedTotals, k), TotalOf(b.processedTotals, k))]]

\* The features of the collection whose key is zip, in the order of the file
MembersOf(zip) ==
    SelectSeq(geoJsonData.features, LAMBDA f : ZipOf(f.properties) = zip)

\* A value that is absent, and a value that is a count: a number, or the
\* digits of one
IsAbsent(v) == v \in {Undef, Null, Str(<<>>)}

IsCount(v) == IsNum(v) \/ (IsStr(v) /\ IsDigits(v.s))

CountOf(v) == IF IsNum(v) THEN v.n ELSE IF IsCount(v) THEN DigitsVal(v.s) ELSE 0

\* The sum of the attribute key over the members, a value that is no count
\* left out
RECURSIVE ValidSum(_, _)
ValidSum(members, key) ==
    IF members = <<>> THEN 0
    ELSE CountOf(Get(Head(members).properties, key)) + ValidSum(Tail(members), key)

AllCounts(members, key) ==
    \A i \in 1..Len(members) :
        LET v == Get(members[i].properties, key) IN IsAbsent(v) \/ IsCount(v)

\* The sum of a sequence of numbers as JavaScript adds them
RECURSIVE JSSum(_)
JSSum(values) ==
    IF values = <<>> THEN Num(0) ELSE Plus(Head(values), JSSum(Tail(values)))

\* The selected keys that have a summary, and their summaries
PresentKeys == SelectSeq(selectedZips, LAMBDA z : HasZip(zipSummaries, z))

SelectedGroups ==
    [i \in 1..Len(PresentKeys) |-> zipSummaries[IndexOfZip(zipSummaries, PresentKeys[i])]]

GroupOf(zip) == zipSummaries[IndexOfZip(zipSummaries, zip)]

----------------------------------------------------------------------------
(* C1 *)

\* C1: aggregate additivity.  However the selection is split into a first
\* part S1 and a rest S2, every total of the summary of the selection
\* (students, population, female, male, records, schools, each per-key sum)
\* is the sum of that total in the summary of S1 and in the summary of S2.
AggregateIsAdditive ==
    \A n \in 1..(Len(selectedZips) - 1) :
        Totals(aggregatedData)
            = SumOfTotals(Aggregate(SubSeq(selectedZips, 1, n), zipSummaries),
                          Aggregate(SubSeq(selectedZips, n + 1, Len(selectedZips)),
                                    zipSummaries))

\* The documented scenario with both groups selected: the primary total is 20.
AdditiveWitness ==
    /\ geoJsonData = ScenarioCollection
    /\ selectedZips = <<Str(Zip75001), Str(Zip75002)>>
    /\ aggregatedData.totalStudents = Num(20)
    /\ aggregatedData.totalRecords = 3

----------------------------------------------------------------------------
(* C2 *)

\* The totals of one group against its members
GroupTotalsAdd(g, members) ==
    /\ g.totalStudents = Plus(g.totalFemale, g.totalMale)
    /\ AllCounts(members, "Female") => g.totalFemale = Num(ValidSum(members, "Female"))
    /\ AllCounts(members, "Male") => g.totalMale = Num(ValidSum(members, "Male"))

\* C2: in every group of both builders the primary total is the female total
\* plus the male total, each of them the sum of its attribute over the members
\* of the group; the documented scenario gives exactly the groups 75001
\* (20 / 13 / 7) and 75002 (0).
PrimaryTotalIsFemalePlusMale ==
    /\ \A i \in 1..Len(zipSummaries) :
            GroupTotalsAdd(zipSummaries[i], MembersOf(zipSummaries[i].zip))
    /\ \A i \in 1..Len(zipAnalysis.groups) :
            GroupTotalsAdd(zipAnalysis.groups[i], MembersOf(zipAnalysis.groups[i].zip))
    /\ geoJsonData = ScenarioCollection =>
            /\ ZipKeys(zipSummaries) = <<Str(Zip75001), Str(Zip75002)>>
            /\ ZipKeys(zipAnalysis.groups) = <<Str(Zip75001), Str(Zip75002)>>
            /\ \A groups \in {zipSummaries, zipAnalysis.groups} :
                    /\ groups[1].totalStudents = Num(20)
                    /\ groups[1].totalFemale = Num(13)
                    /\ groups[1].totalMale = Num(7)
                    /\ groups[2].totalStudents = Num(0)

\* The documented scenario is built, with 20 / 13 / 7 in the group of 75001.
PrimaryTotalWitness ==
    /\ geoJsonData = ScenarioCollection
    /\ Len(zipSummaries) = 2
    /\ GroupOf(Str(Zip75001)).count = 2
    /\ GroupOf(Str(Zip75001)).totalStudents = Num(20)
    /\ ~zipAnalysis.threw /\ Len(zipAnalysis.groups) = 2

----------------------------------------------------------------------------
(* C3 *)

\* A value that is empty as a key: absent, null, the empty text, or zero
IsEmptyKey(v) == v \in {Undef, Null, Str(<<>>), Num(0)}

\* The first of Zip, ZIP, zipcode that is not empty; undefined when all are
FirstAlias(props) ==
    IF ~IsEmptyKey(Get(props, "Zip")) THEN Get(props, "Zip")
    ELSE IF ~IsEmptyKey(Get(props, "ZIP")) THEN Get(props, "ZIP")
    ELSE IF ~IsEmptyKey(Get(props, "zipcode")) THEN Get(props, "zipcode")
    ELSE Undef

\* C3: every feature is a member of the group keyed by the first of its
\* aliases Zip, ZIP, zipcode that is not empty, and of no other group, in both
\* builders; a feature whose aliases are all empty is in no group.
KeyByAliasPriority ==
    \A n \in 1..Len(geoJsonData.features) :
        LET f == geoJsonData.features[n]
            key == FirstAlias(f.properties)
        IN  /\ ~IsEmptyKey(key) => HasZip(zipSummaries, key)
            /\ \A i \in 1..Len(zipSummaries) :
                    (f \in Range(zipSummaries[i].features)) <=> (zipSummaries[i].zip = key)
            /\ ~zipAnalysis.threw =>
                    /\ ~IsEmptyKey(key) => HasZip(zipAnalysis.groups, key)
                    /\ \A i \in 1..Len(zipAnalysis.groups) :
                            (f.properties \in Range(zipAnalysis.groups[i].rawRecords))
                                <=> (zipAnalysis.groups[i].zip = key)

\* A feature whose Zip is present and empty and whose ZIP and zipcode differ is
\* a member of the group of its ZIP.
AliasWitness ==
    \E n \in 1..Len(geoJsonData.features) :
        LET f == geoJsonData.features[n]
        IN  /\ {"Zip", "ZIP", "zipcode"} \subseteq DOMAIN f.properties
            /\ f.properties["Zip"] \in {Str(<<>>), Num(0)}
            /\ f.properties["ZIP"] = Str(Zip75002)
            /\ f.properties["zipcode"] = Str(Zip75003)
            /\ HasZip(zipSummaries, Str(Zip75002))
            /\ f \in Range(GroupOf(Str(Zip75002)).features)
            /\ ~HasZip(zipSummaries, Str(Zip75003))

----------------------------------------------------------------------------
(* C4 *)

\* The named totals of one group as the sums of the valid values of its members
TotalsSkipInvalid(g, members) ==
    /\ g.count = Len(members)
    /\ g.totalFemale = Num(ValidSum(members, "Female"))
    /\ g.totalMale = Num(ValidSum(members, "Male"))
    /\ g.totalStudents = Num(ValidSum(members, "Female") + ValidSum(members, "Male"))

\* C4: a missing value counts as zero and a value that is no number is left
\* out of its sum only: every named total of every group, in both builders, is
\* a number, the sum of the valid values of the members, and every member is
\* counted.
NonNumericValuesSkipped ==
    /\ \A i \in 1..Len(zipSummaries) :
            LET g == zipSummaries[i]
            IN  /\ TotalsSkipInvalid(g, MembersOf(g.zip))
                /\ g.schools = Num(ValidSum(MembersOf(g.zip), "Schl_Cn"))
    /\ \A i \in 1..Len(zipAnalysis.groups) :
            LET g == zipAnalysis.groups[i]
            IN  /\ TotalsSkipInvalid(g, MembersOf(g.zip))
                /\ g.totalPreK = Num(ValidSum(MembersOf(g.zip), "Pre_K"))

----------------------------------------------------------------------------
(* C5 *)

\* The integer nearest to a / b for b > 0, the half going up
NearestInteger(a, b) ==
    CHOOSE r \in (0 - Abs(a) - 1)..(Abs(a) + 1) :
        2 * b * r <= 2 * a + b /\ 2 * a + b < 2 * b * (r + 1)

\* The sums of the totals of the selected groups
SelectedStudents == JSSum([i \in 1..Len(SelectedGroups) |-> SelectedGroups[i].totalStudents])

SelectedFemale == JSSum([i \in 1..Len(SelectedGroups) |-> SelectedGroups[i].totalFemale])

SelectedMale == JSSum([i \in 1..Len(SelectedGroups) |-> SelectedGroups[i].totalMale])

SelectedSchoolTotals == JSSum([i \in 1..Len(SelectedGroups) |-> SelectedGroups[i].schools])

\* The school count of a group averaged over its records, to the nearest
\* integer; zero when the school total of the group is no number
SchoolsAveraged(g) ==
    IF IsNum(g.schools) THEN Num(NearestInteger(g.schools.n, g.count)) ELSE Num(0)

SelectedSchoolsAveraged ==
    JSSum([i \in 1..Len(SelectedGroups) |-> SchoolsAveraged(SelectedGroups[i])])

\* The female:male ratio of the selection-wide sums, to two decimals
RatioOfSums ==
    IF GtZero(SelectedMale) THEN ToFixed(Divide(SelectedFemale, SelectedMale), 2)
    ELSE NotApplicable

\* The average per school over a school figure, to the nearest integer
AverageOver(schools) ==
    IF ~GtZero(schools) THEN Num(0)
    ELSE IF IsNaN(SelectedStudents) THEN NaN
    ELSE Num(NearestInteger(SelectedStudents.n, schools.n))

----------------------------------------------------------------------------
(* C6 *)

\* C6: no derived figure is NaN: the female:male ratio is the "not applicable"
\* sentinel when the male total is zero and a number otherwise, and the average
\* per school, the grade percentages, the ranking bar widths and the gender
\* percentages of a group are numbers, their defaults on a zero denominator.
DerivedFiguresAreNumbers ==
    /\ ~aggregatedData.isNull =>
            /\ aggregatedData.totalMale = Num(0) =>
                    GenderRatio(aggregatedData) = NotApplicable
            /\ GenderRatio(aggregatedData).kind \in {"na", "fixed"}
            /\ IsNum(AvgStudentsPerSchool(aggregatedData))
            /\ aggregatedData.totalSchools = Num(0) =>
                    AvgStudentsPerSchool(aggregatedData) = Num(0)
            /\ \A k \in EssentialSet :
                    /\ GradePercentage(aggregatedData, k).kind = "fixed"
                    /\ GradeBarWidth(aggregatedData, k).kind = "ratio"
            /\ \A i \in 1..Len(PresentKeys) :
                    RankingBarWidth(selectedZips, zipSummaries, PresentKeys[i]).kind
                        = "ratio"
    /\ \A i \in 1..Len(zipAnalysis.groups) :
            /\ femalePercentage(zipAnalysis.groups[i]).kind = "ratio"
            /\ malePercentage(zipAnalysis.groups[i]).kind = "ratio"

----------------------------------------------------------------------------
(* C7 *)

NoKeyTwice ==
    \A i, j \in 1..Len(selectedZips) : selectedZips[i] = selectedZips[j] => i = j

\* The keys a handler can be run for in the current state
KeysAtHand == Range(ZipKeys(zipSummaries)) \cup Range(selectedZips)

\* A toggle of zip has added it if it was absent and removed it if it was
\* present, and has touched no other key
Toggled(zip) ==
    /\ Selected(selectedZips', zip) <=> ~Selected(selectedZips, zip)
    /\ \A z \in KeysAtHand \ {zip} :
            Selected(selectedZips', z) <=> Selected(selectedZips, z)

ToggleStep ==
    \A zip \in KeysAtHand :
        /\ MapClick(zip) => Toggled(zip)
        /\ BadgeClick(zip) => Toggled(zip)
        /\ RemoveClick(zip) => Toggled(zip) /\ ~Selected(selectedZips', zip)

\* C7: under map clicks, badge clicks, remove clicks and Clear All the
\* selection never holds a key twice, and each toggle adds the key it is given
\* if the key is absent and removes it if it is present.
SelectionIsDuplicateFree == [][ToggleStep]_vars /\ []NoKeyTwice

\* A badge click has just toggled a key of a selection of two keys or more,
\* in an index that holds a third key.
ToggleWitness ==
    /\ lastEvent = "badgeClick"
    /\ selectedZips = <<Str(Zip75002), Str(Zip75003)>>
    /\ HasZip(zipSummaries, Str(Zip75001))

----------------------------------------------------------------------------
(* C8 *)

PositionIn(seq, z) == CHOOSE i \in 1..Len(seq) : seq[i] = z

\* The keys that stay selected keep their order, and a key that is new is last
OrderKept ==
    /\ \A i, j \in 1..Len(selectedZips') :
            (/\ i < j
             /\ Selected(selectedZips, selectedZips'[i])
             /\ Selected(selectedZips, selectedZips'[j]))
                => PositionIn(selectedZips, selectedZips'[i])
                        < PositionIn(selectedZips, selectedZips'[j])
    /\ \A i \in 1..Len(selectedZips') :
            ~Selected(selectedZips, selectedZips'[i]) => i = Len(selectedZips')

\* The rows of the comparison table are the selected keys in their order
TableInSelectionOrder ==
    LET table == ComparisonTable(selectedZips, zipSummaries)
    IN  [i \in 1..Len(table) |-> table[i].zip] = selectedZips

\* C8: the selection is kept in insertion order: a step appends a new key at
\* the end and leaves the relative order of the keys that remain; the
\* comparison table lists the selected groups in that order, whatever the
\* order of the ranking.
InsertionOrderKept == [][OrderKept]_vars /\ []TableInSelectionOrder

\* 75002 was selected before 75001 and stays first in the table, while the
\* ranking puts 75001, the larger group, first.
InsertionOrderWitness ==
    /\ lastEvent = "mapClick"
    /\ selectedZips = <<Str(Zip75002), Str(Zip75001)>>
    /\ ComparisonTable(selectedZips, zipSummaries)[1].zip = Str(Zip75002)
    /\ Len(Ranking(selectedZips, zipSummaries)) = 2
    /\ Ranking(selectedZips, zipSummaries)[1].zip = Str(Zip75001)

----------------------------------------------------------------------------
(* C9 *)

\* C9: a selected key without a summary in the index adds nothing: every total
\* of the aggregated summary is that of the summary of the selected keys that
\* are in the index, and zero when none of them is.
AbsentKeysAddNothing ==
    ~aggregatedData.isNull =>
        Totals(aggregatedData)
            = IF PresentKeys = <<>> THEN ZeroTotals
              ELSE Totals(Aggregate(PresentKeys, zipSummaries))

\* The collection was replaced while 75003 was selected: 75003 has no summary
\* any more, 75001 has, and the totals are those of 75001.
AbsentKeyWitness ==
    /\ lastEvent = "load"
    /\ selectedZips = <<Str(Zip75003), Str(Zip75001)>>
    /\ ~HasZip(zipSummaries, Str(Zip75003))
    /\ HasZip(zipSummaries, Str(Zip75001))
    /\ aggregatedData.totalStudents = Num(15)
    /\ aggregatedData.totalRecords = 1

----------------------------------------------------------------------------
(* C10 *)

\* C10: the summary of an empty selection is the "no selection" value, null:
\* at mount, after Clear All, and after the last key is removed.
EmptySelectionHasNoSummary ==
    /\ lastEvent \in {"mount", "clearAll"} => selectedZips = <<>>
    /\ selectedZips = <<>> => aggregatedData = NullAggregate /\ aggregatedData.isNull

\* Clear All has just emptied the selection.
ClearAllWitness ==
    /\ lastEvent = "clearAll"
    /\ selectedZips = <<>>
    /\ aggregatedData.isNull
    /\ geoJsonData.loaded

----------------------------------------------------------------------------
(* C11 *)

\* A value that parses as a non-negative number: a number that is not
\* negative, or the digits of one
IsNonNegative(v) == IsCount(v) /\ CountOf(v) >= 0

\* The sum of the attribute key over the members, only the values that parse
\* as non-negative numbers taken
RECURSIVE NonNegativeSum(_, _)
NonNegativeSum(members, key) ==
    IF members = <<>> THEN 0
    ELSE (IF IsNonNegative(Get(Head(members).properties, key))
          THEN CountOf(Get(Head(members).properties, key)) ELSE 0)
         + NonNegativeSum(Tail(members), key)

\* The attribute names that occur in the members
AttributesOf(members) == UNION {DOMAIN members[i].properties : i \in 1..Len(members)}

GenericTotalsOf(g, members) ==
    \A k \in AttributesOf(members) :
        TotalOf(g.processedTotals, k) = Num(NonNegativeSum(members, k))

\* C11: in every group of both builders, the generic per-key running total of
\* every attribute that occurs in the members, core field or not, is the sum
\* over the members of the values of the attribute that parse as non-negative
\* numbers; negative values and values that are no number add nothing.
GenericTotalsCoverEveryAttribute ==
    /\ \A i \in 1..Len(zipSummaries) :
            GenericTotalsOf(zipSummaries[i], MembersOf(zipSummaries[i].zip))
    /\ \A i \in 1..Len(zipAnalysis.groups) :
            GenericTotalsOf(zipAnalysis.groups[i], MembersOf(zipAnalysis.groups[i].zip))

----------------------------------------------------------------------------
(* C12 *)

\* The metric of a ranked group
MetricOf(item) == OrElse(item.data.totalStudents, Num(0)).n

\* a comes before b: the larger metric first, the smaller key first among equals
RanksBefore(a, b) ==
    \/ MetricOf(a) > MetricOf(b)
    \/ MetricOf(a) = MetricOf(b) /\ LocaleLess(JSString(a.zip), JSString(b.zip))

\* C12: the ranking of the selected groups is in descending order of the
\* metric, groups of equal metric in ascending order of their key, whatever the
\* order of selection; it holds at most RankingLimit entries, the highest ones.
RankingIsDeterministic ==
    LET ranking == Ranking(selectedZips, zipSummaries)
    IN  /\ Len(ranking) = IF Len(PresentKeys) < RankingLimit THEN Len(PresentKeys)
                          ELSE RankingLimit
        /\ \A i, j \in 1..Len(ranking) : i < j => RanksBefore(ranking[i], ranking[j])
        /\ \A i \in 1..Len(ranking) : Selected(PresentKeys, ranking[i].zip)
        /\ \A n \in 1..Len(PresentKeys) :
                \/ \E i \in 1..Len(ranking) : ranking[i].zip = PresentKeys[n]
                \/ \A i \in 1..Len(ranking) :
                        MetricOf(ranking[i]) >= MetricOf([zip |-> PresentKeys[n],
                                                          data |-> GroupOf(PresentKeys[n])])

----------------------------------------------------------------------------
(* C13 *)

\* The features of the collection whose first alias that is not empty is zip,
\* in the order of the collection
FeaturesKeyed(zip) ==
    SelectSeq(geoJsonData.features, LAMBDA f : FirstAlias(f.properties) = zip)

\* The features of the collection that have a key
FeaturesWithKey ==
    SelectSeq(geoJsonData.features, LAMBDA f : ~IsEmptyKey(FirstAlias(f.properties)))

RECURSIVE SumOfCounts(_)
SumOfCounts(groups) ==
    IF groups = <<>> THEN 0 ELSE Head(groups).count + SumOfCounts(Tail(groups))

KeysDiffer(groups) ==
    \A i, j \in 1..Len(groups) : groups[i].zip = groups[j].zip => i = j

\* C13: in both builders the record count of a group is the number of its
\* members and the members are the features of its key in the order of the
\* collection; no key has two groups, so that every feature with a key is a
\* member of exactly one group and the record counts add up to the number of
\* features that have a key.
GroupsPartitionFeatures ==
    /\ KeysDiffer(zipSummaries)
    /\ \A i \in 1..Len(zipSummaries) :
            /\ zipSummaries[i].features = FeaturesKeyed(zipSummaries[i].zip)
            /\ zipSummaries[i].count = Len(zipSummaries[i].features)
            /\ zipSummaries[i].count > 0
    /\ SumOfCounts(zipSummaries) = Len(FeaturesWithKey)
    /\ (~zipAnalysis.isNull /\ ~zipAnalysis.threw) =>
            /\ KeysDiffer(zipAnalysis.groups)
            /\ \A i \in 1..Len(zipAnalysis.groups) :
                    LET g == zipAnalysis.groups[i]
                        members == FeaturesKeyed(g.zip)
                    IN  /\ g.rawRecords = [n \in 1..Len(members) |-> members[n].properties]
                        /\ g.count = Len(g.rawRecords)
                        /\ g.count > 0
            /\ SumOfCounts(zipAnalysis.groups) = Len(FeaturesWithKey)

\* The documented scenario: the group of 75001 holds the first and the second
\* feature in that order, the group of 75002 the third, three records in all.
GroupMembersWitness ==
    /\ geoJsonData = ScenarioCollection
    /\ Len(zipSummaries) = 2
    /\ zipSummaries[1].features = SubSeq(geoJsonData.features, 1, 2)
    /\ zipSummaries[1].count = 2
    /\ ~zipAnalysis.threw
    /\ Len(zipAnalysis.groups[1].rawRecords) = 2
    /\ zipAnalysis.groups[1].rawRecords[1] = geoJsonData.features[1].properties
    /\ SumOfCounts(zipAnalysis.groups) = 3

----------------------------------------------------------------------------
(* C15 *)

\* A search step keeps the selection and a Clear All step keeps the search text
SearchAndClearStep ==
    /\ \A term \in SearchTerms :
            SetSearchTerm(term) => searchTerm' = term /\ selectedZips' = selectedZips
    /\ lastEvent' = "search" => selectedZips' = selectedZips
    /\ ClearAll => selectedZips' = <<>> /\ searchTerm' = searchTerm
    /\ lastEvent' = "clearAll" => selectedZips' = <<>> /\ searchTerm' = searchTerm

\* C15: setting the search text replaces the search text and leaves the
\* selection as it is, the same keys in the same order; Clear All empties the
\* selection and leaves the search text as it is.
SearchAndSelectionIndependent == [][SearchAndClearStep]_vars

\* The search text was just set while two keys were selected.
SearchKeepsSelectionWitness ==
    /\ lastEvent = "search"
    /\ searchTerm = <<"7", "5", "0">>
    /\ selectedZips = <<Str(Zip75002), Str(Zip75001)>>

----------------------------------------------------------------------------
(* C14 *)

\* The collection without its n-th feature
WithoutFeature(n) ==
    Collection(SubSeq(geoJsonData.features, 1, n - 1)
                \o SubSeq(geoJsonData.features, n + 1, Len(geoJsonData.features)))

\* The positions of the features none of whose aliases gives a key
KeylessPositions ==
    {n \in 1..Len(geoJsonData.features) :
        IsEmptyKey(FirstAlias(geoJsonData.features[n].properties))}

\* text contains term at some position, letters compared without their case
ContainsIgnoringCase(text, term) ==
    \E i \in 0..(Len(text) - Len(term)) :
        \A j \in 1..Len(term) : ToLowerChar(text[i + j]) = ToLowerChar(term[j])

IsBlank(term) == \A i \in 1..Len(term) : term[i] = " "

\* Some property of the feature contains the text
FeatureContains(f, term) ==
    \E k \in DOMAIN f.properties : ContainsIgnoringCase(JSString(f.properties[k]), term)

\* The features the search text keeps, in the order of the collection
Matching(features, term) ==
    IF IsBlank(term) THEN features
    ELSE SelectSeq(features, LAMBDA f : FeatureContains(f, term))

\* The position of the n-th feature of the collection among the features kept
\* by the search text, when it is kept
RankAmongMatching(n, term) ==
    Len(Matching(SubSeq(geoJsonData.features, 1, n), term))

\* C14: a feature without a key is a member of no group and the group indexes
\* are those of the collection without it; it stays in the raw list: it is
\* counted in totalFeatures, each of its attributes has a schema entry, the
\* search keeps it when one of its properties contains the text, and it is in
\* the window of the page its position falls on.
KeylessFeatureStaysInRawList ==
    \A n \in KeylessPositions :
        LET f == geoJsonData.features[n]
            kept == IsBlank(explorerSearchTerm) \/ FeatureContains(f, explorerSearchTerm)
            rank == RankAmongMatching(n, explorerSearchTerm)
        IN  /\ \A i \in 1..Len(zipSummaries) : f \notin Range(zipSummaries[i].features)
            /\ zipSummaries = BuildZipSummaries(WithoutFeature(n))
            /\ ~zipAnalysis.threw =>
                    /\ \A i \in 1..Len(zipAnalysis.groups) :
                            f.properties \notin Range(zipAnalysis.groups[i].rawRecords)
                    /\ zipAnalysis \in ZipAnalysisOutcomes(WithoutFeature(n))
            /\ dataAnalysis.totalFeatures = Len(geoJsonData.features)
            /\ dataAnalysis.features[n] = f
            /\ \A k \in DOMAIN f.properties : HasColumn(dataAnalysis.columns, k)
            /\ kept =>
                    /\ filteredData.totalFiltered.n >= rank
                    /\ (currentPage - 1) * ItemsPerPage < rank /\ rank <= currentPage * ItemsPerPage
                            => filteredData.features[rank - (currentPage - 1) * ItemsPerPage] = f

\* A feature without any alias, after one with ZIP 75001: a search for "aB"
\* has just kept both, the index has the one group 75001, and the attribute
\* Female, which only the feature without a key carries, has a schema entry.
KeylessFeatureWitness ==
    /\ lastEvent = "explorerSearch"
    /\ explorerSearchTerm = <<"a", "B">>
    /\ geoJsonData.features = <<ExplorerFeatures[1], ExplorerFeatures[3]>>
    /\ KeylessPositions = {2}
    /\ Len(zipSummaries) = 1
    /\ dataAnalysis.totalFeatures = 2
    /\ HasColumn(dataAnalysis.columns, "Female")
    /\ filteredData.features = geoJsonData.features

----------------------------------------------------------------------------
(* C16 *)

\* The window of page over a list, element by element
WindowOf(list, page, size) ==
    LET first == (page - 1) * size
        count == IF Len(list) <= first THEN 0
                 ELSE IF Len(list) - first < size THEN Len(list) - first ELSE size
    IN  [i \in 1..count |-> list[first + i]]

\* The search texts the filters are compared on
ProbeTerms ==
    ExplorerTerms \cup {<<" ", " ">>, <<"A", "B">>, <<" ", "7">>, <<"7", "5", "0", "0", "1">>}

\* C16: the filtered set is the features some property of which contains, as
\* text, the search text without regard to case, in the order of the
\* collection, and every feature when the text is empty or blank; in the
\* documented scenario "750" keeps the three features and "9999" keeps none.
SearchMatchesAnyProperty ==
    /\ ~dataAnalysis.isNull =>
            LET expected == Matching(geoJsonData.features, explorerSearchTerm)
            IN  /\ filteredData.totalFiltered = Num(Len(expected))
                /\ filteredData.features = WindowOf(expected, currentPage, ItemsPerPage)
    /\ \A term \in ProbeTerms :
            /\ SearchFeatures(geoJsonData.features, term) = Matching(geoJsonData.features, term)
            /\ FilterPanelSearch(geoJsonData.features, term) = Matching(geoJsonData.features, term)
    /\ geoJsonData = ScenarioCollection =>
            /\ SearchFeatures(geoJsonData.features, <<"7", "5", "0">>) = geoJsonData.features
            /\ SearchFeatures(geoJsonData.features, <<"9", "9", "9", "9">>) = <<>>

\* A search for "aB" has just kept the feature named "Ab" and dropped the
\* other feature of the collection.
SearchWitness ==
    /\ lastEvent = "explorerSearch"
    /\ explorerSearchTerm = <<"a", "B">>
    /\ geoJsonData.features = <<ExplorerFeatures[1], ExplorerFeatures[2]>>
    /\ filteredData.features = <<ExplorerFeatures[1]>>
    /\ filteredData.totalFiltered = Num(1)

----------------------------------------------------------------------------
(* C17 *)

MaxProbePage == 5

\* The page sizes the window is examined for, the one of the component among them
ProbeSizes == {1, 2, 3, ItemsPerPage}

\* The list the search of the component keeps
FilteredList == SearchFeatures(dataAnalysis.features, explorerSearchTerm)

\* C17: for every page from 1 on and every page size above 0, the window over
\* the filtered list holds at most size items, is the run of the list that
\* starts at index (page - 1) * size, and is empty when the page is beyond
\* totalPages; so is the window the component shows.
WindowIsBounded ==
    /\ \A page \in 1..MaxProbePage : \A size \in ProbeSizes :
            LET projected == Paginate(FilteredList, page, size)
                window == projected.features
                first == (page - 1) * size
            IN  /\ Len(window) <= size
                /\ window # <<>> => first + Len(window) <= Len(FilteredList)
                /\ \A i \in 1..Len(window) : window[i] = FilteredList[first + i]
                /\ Len(window) < size => first + Len(window) >= Len(FilteredList)
                /\ page > projected.totalPages => window = <<>>
    /\ Len(filteredData.features) <= ItemsPerPage
    /\ currentPage > filteredData.totalPages => filteredData.features = <<>>
    /\ filteredData.features = WindowOf(FilteredList, currentPage, ItemsPerPage)

\* The collection was replaced while page 3 was shown: the new list has two
\* pages and the window is empty.
EmptyWindowWitness ==
    /\ lastEvent = "explorerLoad"
    /\ currentPage = 3
    /\ filteredData.totalPages = 2
    /\ filteredData.features = <<>>
    /\ filteredData.totalFiltered = Num(Len(geoJsonData.features))

----------------------------------------------------------------------------
(* C18 *)

\* The least number of pages of the given size that hold count items
PagesFor(count, size) == CHOOSE p \in 0..count : p * size >= count /\ (p - 1) * size < count

\* C18: totalPages is the filtered count divided by the page size, rounded up,
\* for the current filtered list; it is 0 exactly when the filtered set is
\* empty, without a collection as well as when the search keeps nothing.
TotalPagesIsCeiling ==
    /\ dataAnalysis.isNull =>
            filteredData.totalPages = 0 /\ filteredData.features = <<>>
    /\ ~dataAnalysis.isNull =>
            /\ filteredData.totalPages
                    = PagesFor(Len(Matching(geoJsonData.features, explorerSearchTerm)),
                               ItemsPerPage)
            /\ filteredData.totalPages = 0
                    <=> Matching(geoJsonData.features, explorerSearchTerm) = <<>>
    /\ \A size \in ProbeSizes :
            Paginate(FilteredList, 1, size).totalPages = PagesFor(Len(FilteredList), size)

\* A search that keeps nothing of a collection that has features: no page.
NoPageWitness ==
    /\ lastEvent = "explorerSearch"
    /\ explorerSearchTerm = <<"9", "9", "9", "9">>
    /\ Len(geoJsonData.features) > ItemsPerPage
    /\ filteredData.totalPages = 0
    /\ filteredData.totalFiltered = Num(0)
    /\ filteredData.features = <<>>

----------------------------------------------------------------------------
(* C19 *)

\* The page is within the pages of the current filtered list
PageInRange(page, totalPages) == page \in 1..totalPages

PagingStep ==
    /\ (NextPage \/ PreviousPage) => PageInRange(currentPage', filteredData'.totalPages)
    /\ lastEvent' = "explorerSearch" =>
            \/ PageInRange(currentPage', filteredData'.totalPages)
            \/ filteredData'.features = <<>>

\* C19: the page and the window follow the current filtered count: after a
\* change of the search text the page is in range or the window is empty;
\* Next and Previous never leave the page outside 1..totalPages; the window is
\* always the one of the current filtered list.
PageFollowsFilteredCount ==
    /\ [][PagingStep]_vars
    /\ [](filteredData.features = WindowOf(FilteredList, currentPage, ItemsPerPage))

----------------------------------------------------------------------------
(* C20 *)

\* The first value observed for a key
FirstValueOf(key) ==
    LET n == CHOOSE n \in 1..Len(geoJsonData.features) :
                /\ key \in DOMAIN geoJsonData.features[n].properties
                /\ \A m \in 1..(n - 1) : key \notin DOMAIN geoJsonData.features[m].properties
    IN  geoJsonData.features[n].properties[key]

\* The value is a number, or text that reads as one
ParsesAsNumber(v) ==
    \/ IsNum(v)
    \/ IsStr(v) /\ Trim(v.s) # <<>> /\ ~IsNaN(StringToNumber(v.s))

\* The value is text in the date-time string format
ParsesAsDate(v) == IsStr(v) /\ IsIsoDate(v.s)

SchemaTypes == {"numeric", "date", "text", "unknown"}

\* C20: the type of a schema entry is one of numeric, date, text, unknown; it
\* is that of the first value observed for the key: numeric when the value
\* parses as a number, stored as a number or as text and whether or not it
\* parses as a date too, and date only when it parses as a date and not as a
\* number.
SchemaTypesNumericFirst ==
    \A i \in 1..Len(dataAnalysis.columns) :
        LET column == dataAnalysis.columns[i]
            v == FirstValueOf(column.name)
        IN  /\ column.type \in SchemaTypes
            /\ ParsesAsNumber(v) => column.type = "numeric"
            /\ (ParsesAsDate(v) /\ ~ParsesAsNumber(v)) => column.type = "date"

----------------------------------------------------------------------------
(* C21 *)

\* The schema of the first k features of the collection
SchemaOfPrefix(k) ==
    BuildDataAnalysis(Collection(SubSeq(geoJsonData.features, 1, k)),
                      lenientDateParser).columns

\* The type the schema records for a key
RecordedType(columns, key) == columns[IndexOfColumn(columns, key)].type

\* C21: the type of a schema entry is the one inferred from the first value of
\* its key in the feature sequence, and features appended later leave it
\* alone: every key of the schema of a prefix of the collection has the same
\* type in the schema of the whole collection.
TypeFromFirstOccurrenceOnly ==
    ~dataAnalysis.isNull =>
        /\ \A i \in 1..Len(dataAnalysis.columns) :
                dataAnalysis.columns[i].type
                    = PropertyType(FirstValueOf(dataAnalysis.columns[i].name),
                                   lenientDateParser)
        /\ \A k \in 0..Len(geoJsonData.features) :
                \A i \in 1..Len(SchemaOfPrefix(k)) :
                    LET key == SchemaOfPrefix(k)[i].name
                    IN  /\ HasColumn(dataAnalysis.columns, key)
                        /\ RecordedType(dataAnalysis.columns, key) = SchemaOfPrefix(k)[i].type

\* ZIP is a number in the first feature and text in the second: the schema
\* of the collection just loaded keeps the type of the number.
LaterValueDisagreesWitness ==
    /\ lastEvent = "explorerLoad"
    /\ geoJsonData.features = <<ExplorerFeatures[1], ExplorerFeatures[2]>>
    /\ TypeOf(ExplorerFeatures[1].properties["ZIP"])
            # TypeOf(ExplorerFeatures[2].properties["ZIP"])
    /\ RecordedType(dataAnalysis.columns, "ZIP") = "number"
    /\ RecordedType(SchemaOfPrefix(1), "ZIP") = "number"

----------------------------------------------------------------------------
(* C22 *)

\* The names of the schema entries, in their order
ColumnNames == [i \in 1..Len(dataAnalysis.columns) |-> dataAnalysis.columns[i].name]

\* The first feature that carries the key
FirstFeatureWith(key) ==
    CHOOSE n \in 1..Len(geoJsonData.features) :
        /\ key \in DOMAIN geoJsonData.features[n].properties
        /\ \A m \in 1..(n - 1) : key \notin DOMAIN geoJsonData.features[m].properties

\* a is met before b in a scan of the features in sequence order, the
\* properties of a feature being gone through in the order of its entries
MetBefore(a, b) ==
    \/ FirstFeatureWith(a) < FirstFeatureWith(b)
    \/ /\ FirstFeatureWith(a) = FirstFeatureWith(b)
       /\ PositionIn(Keys(geoJsonData.features[FirstFeatureWith(a)].properties), a)
            < PositionIn(Keys(geoJsonData.features[FirstFeatureWith(a)].properties), b)

\* C22: the schema has exactly one entry per property key of the features, in
\* the order in which the keys are first met; discovering it again on the same
\* collection gives the schema held; a collection without features has an
\* empty schema.
SchemaInOrderOfFirstEncounter ==
    /\ dataAnalysis = BuildDataAnalysis(geoJsonData, lenientDateParser)
    /\ ~dataAnalysis.isNull =>
            /\ \A i, j \in 1..Len(ColumnNames) : i < j => ColumnNames[i] # ColumnNames[j]
            /\ Range(ColumnNames)
                    = UNION {DOMAIN f.properties : f \in Range(geoJsonData.features)}
            /\ \A i, j \in 1..Len(ColumnNames) :
                    i < j => MetBefore(ColumnNames[i], ColumnNames[j])
            /\ dataAnalysis.totalColumns = Len(ColumnNames)
            /\ geoJsonData.features = <<>> => dataAnalysis.columns = <<>>

\* Name is first met in the second feature, after the three keys of the first
\* one: it is the last entry, although a feature lists it before Female.
FirstEncounterWitness ==
    /\ lastEvent = "explorerLoad"
    /\ geoJsonData.features = <<ExplorerFeatures[2], ExplorerFeatures[3]>>
    /\ ColumnNames = <<"ZIP", "Opened", "Female", "Name">>
    /\ Keys(ExplorerFeatures[3].properties) = <<"Name", "Female">>

\* A collection without features has just been loaded: the schema is empty.
EmptySchemaWitness ==
    /\ lastEvent = "explorerLoad"
    /\ ~dataAnalysis.isNull
    /\ geoJsonData.features = <<>>
    /\ dataAnalysis.columns = <<>>

----------------------------------------------------------------------------
(* C25 *)

\* C25: no recomputation raises, whatever the shape of the collection: the
\* sort of the groups of ZipCodeAnalyzer returns, and the search filter of the
\* ZIP list of OverviewMap renders.
RecomputationNeverRaises == ~zipAnalysis.threw /\ ~renderError

----------------------------------------------------------------------------
(* C27 *)

\* C27: whenever the filtered list has records, the window shown has some:
\* the page does not stay above totalPages while records match.
WindowShownWhileRecordsMatch ==
    (~dataAnalysis.isNull /\ filteredData.totalFiltered.n > 0)
        => (filteredData.features # <<>> /\ currentPage <= filteredData.totalPages)

----------------------------------------------------------------------------
(* C30 *)

\* The group of the key in the index of ZipCodeAnalyzer
AnalysisOf(zip) == zipAnalysis.groups[IndexOfZip(zipAnalysis.groups, zip)]

\* The group of the key in the index of OverviewMap
SummaryOf(zip) == zipSummaries[IndexOfZip(zipSummaries, zip)]

\* The grade-level and ratio fields both builders keep running totals of
SharedFields == EssentialSet

\* C30: on the same collection the two builders give the same keys and, for
\* each key, the same record count, female, male and primary total, and the
\* same running totals of the grade-level, school-count and ratio fields (a
\* total that was never started counting as 0).
BuildersAgree ==
    (~zipAnalysis.isNull /\ ~zipAnalysis.threw) =>
        /\ Range(ZipKeys(zipSummaries)) = Range(ZipKeys(zipAnalysis.groups))
        /\ \A zip \in Range(ZipKeys(zipSummaries)) :
                /\ SummaryOf(zip).count = AnalysisOf(zip).count
                /\ SummaryOf(zip).totalFemale = AnalysisOf(zip).totalFemale
                /\ SummaryOf(zip).totalMale = AnalysisOf(zip).totalMale
                /\ SummaryOf(zip).totalStudents = AnalysisOf(zip).totalStudents
                /\ \A k \in SharedFields :
                        TotalOf(SummaryOf(zip).processedTotals, k)
                            = TotalOf(AnalysisOf(zip).processedTotals, k)
                /\ SummaryOf(zip).schools
                        = TotalOf(AnalysisOf(zip).processedTotals, "Schl_Cn")

----------------------------------------------------------------------------
(* C23 *)

\* A step that ends a decoding by its failure
DecodeFailureStep ==
    lastEvent' = "decodeFailed" =>
        /\ isLoading
        /\ error' # NoError
        /\ originalGeoJson' = originalGeoJson
        /\ cacheRecord' = cacheRecord
        /\ idbRequests' = idbRequests
        /\ isLoading' = FALSE

\* A step of an attempt to load, from the click on Load up to a failure
LoadAttemptStep ==
    lastEvent' \in {"processShapefile", "decodeFailed"} =>
        /\ originalGeoJson' = originalGeoJson
        /\ cacheRecord' = cacheRecord
        /\ idbRequests' = idbRequests

\* C23: when the decoding of the files fails, an error is shown, the load
\* callback is not invoked (the collection is not set and no save is
\* requested), the collection in memory and the record of the cache are what
\* they were, and isLoading is false again.
DecodeFailureLeavesStateAlone ==
    [][DecodeFailureStep /\ LoadAttemptStep]_vars

\* A decoding has just failed while the collection of the cache is loaded and
\* its record is in the store.
DecodeFailureWitness ==
    /\ lastEvent = "decodeFailed"
    /\ error = DecodeError
    /\ ~isLoading
    /\ originalGeoJson = CachedCollection
    /\ cacheRecord.stored /\ cacheRecord.data = CachedCollection
    /\ idbRequests = <<>>

----------------------------------------------------------------------------
(* C24 *)

\* The age of the record of the store
AgeOfRecord == Now - cacheRecord.timestamp

\* A delete of the record is under way on behalf of the caller
DeleteRequested(requests, caller) ==
    \E i \in 1..Len(requests) : requests[i].op = "delete" /\ requests[i].caller = caller

\* The cache load ends by leaving the loading state, the collection as it was
EndsWithoutCollection ==
    /\ originalGeoJson' = originalGeoJson
    /\ isLoadingFromCache' = FALSE
    /\ cacheLoad' = "done"

\* A step of the cache load
CacheLoadStep ==
    /\ lastEvent' = "cacheRead" =>
            IF cacheRecord.stored /\ AgeOfRecord < CACHE_DURATION
            THEN /\ originalGeoJson' = cacheRecord.data
                 /\ isLoadingFromCache' = FALSE
                 /\ idbRequests' = idbRequests
            ELSE /\ EndsWithoutCollection
                 /\ cacheRecord.stored <=> DeleteRequested(idbRequests', "expired")
    /\ lastEvent' = "cacheOpenFailed" => EndsWithoutCollection
    /\ (lastEvent' = "mountEffect" /\ cacheLoad' = "done") => EndsWithoutCollection
    /\ lastEvent' = "cacheReadFailed" => originalGeoJson' = originalGeoJson
    /\ (cacheLoad = "clearing" /\ cacheLoad' # "clearing") => EndsWithoutCollection

\* C24: the cache load sets the stored collection only when the age of the
\* record is strictly below the cache duration; an older record is treated as
\* absent and its deletion is requested; when the load finds nothing or fails
\* (no IndexedDB, openDB or the read failing, an expired record), the session
\* goes on out of the loading state with no collection set by the load.
CacheLoadHonoursFreshness ==
    /\ [][CacheLoadStep]_vars
    /\ [](cacheLoad \in {"mount", "openDB", "get", "clearing"}
            => originalGeoJson \in {NoCollection, UploadedCollection})

\* A record exactly as old as the cache duration has just been read: no
\* collection is set, the loading state is left, the deletion is under way.
ExpiredRecordWitness ==
    /\ lastEvent = "cacheRead"
    /\ cacheRecord.stored
    /\ AgeOfRecord = CACHE_DURATION
    /\ originalGeoJson = NoCollection
    /\ ~isLoadingFromCache
    /\ DeleteRequested(idbRequests, "expired")

----------------------------------------------------------------------------
(* C26 *)

\* A step that takes the uploaded collection away
UploadReplacedStep ==
    (originalGeoJson = UploadedCollection /\ originalGeoJson' # UploadedCollection)
        => /\ originalGeoJson' = NoCollection
           /\ idbRequests # <<>>
           /\ Head(idbRequests).caller = "clearCache"

\* C26: once handleGeoJsonLoaded(g) has set the collection to g, it stays g
\* until the next upload or Clear Cache, whatever the order in which the
\* cache load, the loading timeout and the upload take their steps.
UploadedCollectionStays == [][UploadReplacedStep]_vars

----------------------------------------------------------------------------
(* C28 *)

\* The files held after an event that delivers the files given, when the
\* files of earlier events are kept
Accumulated(held, files) == WithFiles(held, files)

\* A step of handleFiles
FilesChosenStep ==
    lastEvent' = "handleFiles" =>
        \E files \in FileSelections : uploadedFiles' = Accumulated(uploadedFiles, files)

\* C28: the files of separate events accumulate: an event replaces the
\* entries of the extensions it delivers and keeps the others, so that a .shp
\* file and then a .dbf file enable loading.
FilesAccumulate == [][FilesChosenStep]_vars

----------------------------------------------------------------------------
(* C29 *)

\* C29: after mount the loading state becomes false in every execution, and
\* once false it is never true again.
LoadingStateEnds ==
    /\ <>(~isLoadingFromCache)
    /\ [][~isLoadingFromCache => ~isLoadingFromCache']_vars

\* The timeout has ended the loading state while openDB of the cache load is
\* still pending.
TimeoutEndsLoadingWitness ==
    /\ lastEvent = "timeout"
    /\ ~isLoadingFromCache
    /\ cacheLoad = "openDB"
    /\ ~timeoutId

====
